---- MODULE Spec2Model ----
(***************************************************************************)
(* A model of the content-addressed document index: the versioning layer   *)
(* (blobs, trees, commits, refs), the per-tree full-text index behind the  *)
(* fts_maintenance gate, the artifact registry and its garbage collector.  *)
(*                                                                         *)
(* The whole SQLite database is one variable, db, a record with one field  *)
(* per table: a transaction scope (better-sqlite3 db.transaction) keeps    *)
(* the tables it writes as they are at BEGIN and puts them back on         *)
(* ROLLBACK.                                                               *)
(*                                                                         *)
(* sha256 is modelled as a collision-free digest: Sha256(x) is x written   *)
(* out.  The one place where the code truncates a digest (rowidFor, 63     *)
(* bits) keeps a width, RowidBits, so that collisions happen.              *)
(***************************************************************************)
EXTENDS Integers, Sequences, FiniteSets, TLC

VARIABLES
  db,     \* the database: a record of tables
  pc,     \* where build_fts_tree is in its body ("idle": no call in progress)
  call,   \* the local variables of the build_fts_tree call in progress
  last    \* the envelope of the last operation, once it has returned

vars == <<db, pc, call, last>>

----------------------------------------------------------------------------
(* Bounds of the model *)

\* how many of the candidate working-table contents ingestion may load
NumWorkings == 3
\* how many commits the store may hold
MaxCommits == 2
\* width of the truncated rowid digest (63 in the code)
RowidBits == 2
\* the rowids a direct INSERT into the index may use
MaxGhostRowid == 1
\* how many of the working-table contents the versioning layer is run on
NumGitWorkings == 5
NumArtifactWorkings == 2
MaxTime == 1
MaxDimensions == 1
MaxQueued == 1
MaxLimit == 2

----------------------------------------------------------------------------
(* Values *)

NULL == -1                       \* SQL NULL in an INTEGER column
NoTitle == "<null>"              \* SQL NULL in documents.title
EPOCH == "1970-01-01T00:00:00.000Z"
FTS_KIND == "fts"
TOKENIZER == "unicode61"
ROWID_STRATEGY == "sha256:u63:collision-check:v1"
FTS_SYNC_STRATEGY == "triggers:maintenance-gate:v1"
MaxAttempts == 10

\* ids in ascending (ORDER BY ... ASC) order
DocOrder == <<"A", "B", "sys:tool:retrieve">>
ChunkOrder == <<"a1", "a2", "a3", "b1", "sys:tool:retrieve#def">>

\* A ref name and a commit hash are both strings in the code, and one may be
\* given where the other is expected (a checkout target, a branch name): a
\* plain name n is the value RefName(n), a hash is a digest Sha256(..).
RefName(n) == [name |-> n]
HEAD == RefName("HEAD")
MAIN == RefName("main")
DEV == RefName("dev")
Branches == {MAIN}

DocRank(d) == CHOOSE i \in 1..Len(DocOrder) : DocOrder[i] = d
ChunkRank(c) == CHOOSE i \in 1..Len(ChunkOrder) : ChunkOrder[i] = c

Max(a, b) == IF a >= b THEN a ELSE b
Min(a, b) == IF a <= b THEN a ELSE b

\* String.prototype.substring(start, end) on a sequence of characters
\* a slice that returns the whole string
WholeString(s, start, end) == s

Substring(s, start, end) ==
  LET a0 == Min(Max(start, 0), Len(s))
      b0 == Min(Max(end, 0), Len(s))
      a == Min(a0, b0)
      b == Max(a0, b0)
  IN  SubSeq(s, a + 1, b)

\* crypto sha256: a collision-free digest of its input, which is the
\* input written out as one string.  The comparison brings every record
\* inside x to its normal form first, so that equal inputs are written
\* out alike whatever the order their fields were built in.
Sha256(x) == IF x = x THEN [sha256 |-> ToString(x)] ELSE [sha256 |-> ""]

\* fast-json-stable-stringify: keys sorted, no whitespace.  A TLA+ record
\* has no key order, so the serialisation of a value is the value, tagged.
canonicalize(x) == [json |-> x]

\* a JS array as a JSON value (an object is a record)
JsonArray(xs) == [array |-> xs]

\* JSON.parse of a canonical serialisation
JsonParse(j) == j.json

\* String.prototype.normalize("NFKC"), one character at a time: the
\* fullwidth letter U+FF21 folds to "A", the ligature U+FB01 to "f","i"
NFKCChar(c) ==
  CASE c = "FW_A" -> <<"A">>
    [] c = "LIG_FI" -> <<"f", "i">>
    [] OTHER -> <<c>>

RECURSIVE NFKC(_)
NFKC(s) == IF s = <<>> THEN <<>> ELSE NFKCChar(Head(s)) \o NFKC(Tail(s))

----------------------------------------------------------------------------
(* Working-table contents that ingestion may load.  Ingestion (chunking)   *)
(* is outside the core: each content is a documents table and a chunks     *)
(* table that satisfy the schema (every chunk's doc_id is a document).     *)

Doc(hashOf, title) ==
  [content_hash |-> Sha256(hashOf), title |-> title, updated_at |-> "t1"]

Chunk(doc, text, s, e) ==
  [doc_id |-> doc, text |-> text, span_start |-> s, span_end |-> e,
   content_hash |-> Sha256(text)]

Working(i) ==
  CASE i = 1 ->
         \* one document of two chunks
         [documents |-> [d \in {"A"} |-> Doc(<<"a", "b", "b">>, "Doc A")],
          chunks |-> [c \in {"a1", "a2"} |->
                        IF c = "a1" THEN Chunk("A", <<"a", "b">>, 0, 2)
                        ELSE Chunk("A", <<"b">>, 2, 3)]]
    [] i = 2 ->
         \* one document of one chunk
         [documents |-> [d \in {"A"} |-> Doc(<<"a", "b">>, "Doc A")],
          chunks |-> [c \in {"a1"} |-> Chunk("A", <<"a", "b">>, 0, 2)]]
    [] i = 3 ->
         \* three chunks, the last with a text that is not NFKC-normal
         [documents |-> [d \in {"A"} |-> Doc(<<"a", "b", "FW_A">>, "Doc A")],
          chunks |-> [c \in {"a1", "a2", "a3"} |->
                        IF c = "a1" THEN Chunk("A", <<"a">>, 0, 1)
                        ELSE IF c = "a2" THEN Chunk("A", <<"b">>, 1, 2)
                        ELSE Chunk("A", <<"FW_A">>, 2, 3)]]
    [] i = 4 ->
         \* two documents; B has a chunk without spans
         [documents |-> [d \in {"A", "B"} |->
                        IF d = "A" THEN Doc(<<"a", "b">>, "Doc A")
                        ELSE Doc(<<"b", "a">>, NoTitle)],
          chunks |-> [c \in {"a1", "b1"} |->
                        IF c = "a1" THEN Chunk("A", <<"a", "b">>, 0, 2)
                        ELSE Chunk("B", <<"b", "a">>, NULL, NULL)]]
    [] OTHER ->
         \* document A of one chunk, and a document B that has no chunk
         [documents |-> [d \in {"A", "B"} |->
                        IF d = "A" THEN Doc(<<"a", "b">>, "Doc A")
                        ELSE Doc(<<"b">>, "Doc B")],
          chunks |-> [c \in {"a1"} |-> Chunk("A", <<"a", "b">>, 0, 2)]]

----------------------------------------------------------------------------
(* Small helpers *)

\* the ORDER BY clauses of the queries
ByChunkId == "chunk_id ASC"

ByDocId == "doc_id ASC"

ByDocThenChunk == "doc_id ASC, chunk_id ASC"

\* row x comes before row y under an ORDER BY clause
Before(orderBy, x, y) ==
  CASE orderBy = ByChunkId -> ChunkRank(x.chunk_id) < ChunkRank(y.chunk_id)
    [] orderBy = ByDocId -> DocRank(x.doc_id) < DocRank(y.doc_id)
    [] orderBy = ByDocThenChunk ->
         \/ DocRank(x.doc_id) < DocRank(y.doc_id)
         \/ x.doc_id = y.doc_id /\ ChunkRank(x.chunk_id) < ChunkRank(y.chunk_id)
    [] orderBy = "bm25(chunks_fts), c.chunk_id ASC" ->
         \/ x.score < y.score
         \/ x.score = y.score /\ ChunkRank(x.chunk_id) < ChunkRank(y.chunk_id)

\* the rows of S as a sequence in the order of the clause (a strict total
\* order on S)
SortSet(S, orderBy) ==
  IF S = {} THEN <<>>
  ELSE [i \in 1..Cardinality(S) |->
          CHOOSE x \in S : Cardinality({y \in S : Before(orderBy, y, x)}) = i - 1]

Range(s) == {s[i] : i \in DOMAIN s}

\* f with key k set to v (INSERT ... ON CONFLICT DO UPDATE on a keyed table)
Put(f, k, v) == [x \in DOMAIN f \cup {k} |-> IF x = k THEN v ELSE f[x]]

\* INSERT OR REPLACE
PutOrReplace(f, k, v) == Put(f, k, v)

\* f with key k set to v unless k is already there (INSERT OR IGNORE)
PutIfAbsent(f, k, v) == IF k \in DOMAIN f THEN f ELSE Put(f, k, v)

\* a value that is absent: a null commit hash, a null result
None == [null |-> TRUE]

----------------------------------------------------------------------------
(* The store: the tables as db.ts creates them *)

EmptyDb ==
  [documents |-> <<>>,            \* doc_id -> row
   chunks |-> <<>>,               \* chunk_id -> row
   refs |-> <<>>,                 \* ref_name -> commit_hash
   commits |-> <<>>,              \* commit_hash -> row
   trees |-> <<>>,                \* tree_hash -> entries_json
   blobs |-> <<>>,                \* blob_hash -> bytes
   tasks |-> <<>>,                \* task_id -> row
   audit_log |-> <<>>,            \* request_id -> row
   tree_docs |-> {},              \* rows, key (tree_hash, doc_id)
   tree_chunks |-> {},            \* rows, key (tree_hash, chunk_id)
   index_artifacts |-> {},        \* rows, key artifact_id
   artifact_refs |-> {},          \* rows, key (ref_type, ref_name, kind)
   chunk_embeddings |-> {},       \* rows, key (tree_hash, chunk_id, model_id)
   fts_maintenance |-> {[id |-> 1, enabled |-> 0]},
   fts_chunks |-> {},             \* rows, key rowid
   fts_chunks_fts |-> {}]         \* the inverted index: (rowid, text) entries

----------------------------------------------------------------------------
(* GitOps *)

\* the working chunks joined to their documents, as rows with chunk_id
WorkingChunkRows(d) ==
  {[chunk_id |-> c, doc_id |-> d.chunks[c].doc_id, text |-> d.chunks[c].text,
    span_start |-> d.chunks[c].span_start, span_end |-> d.chunks[c].span_end,
    content_hash |-> d.chunks[c].content_hash] : c \in DOMAIN d.chunks}

TreeEntry(d, r) ==
  [doc_id |-> r.doc_id,
   doc_content_hash |-> d.documents[r.doc_id].content_hash,
   title |-> d.documents[r.doc_id].title,
   chunk_id |-> r.chunk_id,
   chunk_content_hash |-> r.content_hash,
   span_start |-> IF r.span_start = NULL THEN 0 ELSE r.span_start,
   span_end |-> IF r.span_end = NULL THEN Len(r.text) ELSE r.span_end]

createTreeFromCurrentState(d) ==
  LET rows == SortSet({r \in WorkingChunkRows(d) : r.doc_id \in DOMAIN d.documents},
                      ByDocThenChunk)
      entries == [i \in DOMAIN rows |-> TreeEntry(d, rows[i])]
      entriesJson == canonicalize(JsonArray(entries))
  IN  [treeHash |-> Sha256(entriesJson), entriesJson |-> entriesJson,
       rowCount |-> Len(entries)]

\* one chunk laid over the characters built so far
Overlay(chars, c) ==
  LET start == IF c.span_start = NULL THEN 0 ELSE c.span_start
  IN  [i \in 1..Max(Len(chars), start + Len(c.text)) |->
         IF i > start /\ i <= start + Len(c.text) THEN c.text[i - start]
         ELSE IF i <= Len(chars) THEN chars[i] ELSE " "]

RECURSIVE OverlayAll(_, _)
OverlayAll(chars, cs) ==
  IF cs = <<>> THEN chars ELSE OverlayAll(Overlay(chars, Head(cs)), Tail(cs))

RECURSIVE DocumentLength(_)
DocumentLength(cs) ==
  IF cs = <<>> THEN 0
  ELSE LET c == Head(cs)
           start == IF c.span_start = NULL THEN 0 ELSE c.span_start
           end == IF c.span_end = NULL THEN start + Len(c.text) ELSE c.span_end
       IN  Max(Max(end, start + Len(c.text)), DocumentLength(Tail(cs)))

buildDocumentText(cs) ==
  IF cs = <<>> THEN <<>>
  ELSE OverlayAll([i \in 1..DocumentLength(cs) |-> " "], cs)

\* a lookup that finds no ref
getRefAbsent(d, refName) == None

getRef(d, refName) == IF refName \in DOMAIN d.refs THEN d.refs[refName] ELSE None

\* /^[a-f0-9]{64}$/: of the strings of the model, the digests match
IsHex64(target) == DOMAIN target = {"sha256"}

\* a resolution that tries the form of a hash before the refs
resolveHashFirst(d, target) ==
  IF IsHex64(target) THEN target
  ELSE IF getRef(d, target) # None THEN getRef(d, target)
  ELSE None

resolveTarget(d, target) ==
  IF getRef(d, target) # None THEN getRef(d, target)
  ELSE IF IsHex64(target) THEN target
  ELSE None

getTreeHashForCommit(d, commitHash) ==
  IF commitHash \in DOMAIN d.commits THEN d.commits[commitHash].tree_hash ELSE None

getTreeEntries(d, treeHash) ==
  IF treeHash \in DOMAIN d.trees THEN JsonParse(d.trees[treeHash]).array ELSE None

saveTree(d, treeHash, entriesJson) ==
  [d EXCEPT !.trees = PutIfAbsent(@, treeHash, entriesJson)]

updateRef(d, refName, commitHash) ==
  [d EXCEPT !.refs = Put(@, refName, commitHash)]

\* a commit identity that leaves the parents out
CommitHashOfTree(treeHash, parents) ==
  Sha256(canonicalize([tree_hash |-> treeHash]))

CommitHash(treeHash, parents) ==
  Sha256(canonicalize([tree_hash |-> treeHash, parents |-> parents]))

\* a commit that is not written
createCommitUnstored(d, treeHash, parents, message) == d

createCommit(d, treeHash, parents, message) ==
  [d EXCEPT !.commits =
     PutIfAbsent(@, CommitHash(treeHash, parents),
                 [tree_hash |-> treeHash, parents_json |-> canonicalize(JsonArray(parents)),
                  message |-> message, created_at |-> EPOCH])]

----------------------------------------------------------------------------
(* The envelope every tool returns (buildEnvelope): what the model keeps   *)
(* of it is the tool, the result and the error codes.                       *)

Envelope(tool, result, errors) ==
  [tool_name |-> tool, result |-> result, errors |-> errors]

ErrorEnvelope(tool, code) == Envelope(tool, None, <<code>>)

computeHash(x) == Sha256(canonicalize(x))

\* the envelope with the hash of the input it was built for
EnvelopeOf(tool, input, result, errors) ==
  [tool_name |-> tool, inputs_hash |-> computeHash(input),
   result |-> result, errors |-> errors]

\* no envelope yet: the call of the tool is in progress
Pending(tool) == [tool_name |-> tool, pending |-> TRUE]

----------------------------------------------------------------------------
(* Ingestion: the working tables are loaded with one of the contents *)

Ingest(i) ==
  /\ pc = "idle"
  /\ db' = [db EXCEPT !.documents = Working(i).documents,
                      !.chunks = Working(i).chunks]
  /\ last' = Envelope("ingest", None, <<>>)
  /\ UNCHANGED <<pc, call>>

----------------------------------------------------------------------------
(* commit_index *)

DocRows(d) ==
  SortSet({[doc_id |-> x, content_hash |-> d.documents[x].content_hash] :
             x \in DOMAIN d.documents}, ByDocId)

ChunkRows(d) == SortSet(WorkingChunkRows(d), ByDocThenChunk)

\* the chunks of a document, in the order of chunkRows
ChunksOfDoc(d, docId) == SelectSeq(ChunkRows(d), LAMBDA c : c.doc_id = docId)

DocBytes(d, docId) == buildDocumentText(ChunksOfDoc(d, docId))

\* INSERT OR IGNORE of rows into a table whose primary key is the columns key
InsertOrIgnore(table, rows, key) ==
  table \cup {r \in rows : \A x \in table : \E k \in key : x[k] # r[k]}

SameTreeDoc(x, y) == x.tree_hash = y.tree_hash /\ x.doc_id = y.doc_id

SameTreeChunk(x, y) == x.tree_hash = y.tree_hash /\ x.chunk_id = y.chunk_id

\* the blobs, tree_docs and tree_chunks rows of the working state under
\* treeHash (commit_index.ts 47-105)
FreezeTree(d, treeHash, chunkerId) ==
  LET docs == Range(DocRows(d))
      blobOf(x) == DocBytes(d, x.doc_id)
      treeDocs == {[tree_hash |-> treeHash, doc_id |-> x.doc_id,
                    blob_hash |-> Sha256(blobOf(x)),
                    content_hash |-> x.content_hash] : x \in docs}
      treeChunks == {[tree_hash |-> treeHash, chunk_id |-> c.chunk_id,
                      doc_id |-> c.doc_id,
                      span_start |-> IF c.span_start = NULL THEN 0 ELSE c.span_start,
                      span_end |-> IF c.span_end = NULL THEN Len(c.text) ELSE c.span_end,
                      content_hash |-> c.content_hash,
                      chunker_id |-> chunkerId] : c \in Range(ChunkRows(d))}
      blobs == [h \in DOMAIN d.blobs \cup {Sha256(blobOf(x)) : x \in docs} |->
                  IF h \in DOMAIN d.blobs THEN d.blobs[h]
                  ELSE blobOf(CHOOSE x \in docs : Sha256(blobOf(x)) = h)]
  IN  [d EXCEPT !.blobs = blobs,
                !.tree_docs = InsertOrIgnore(@, treeDocs, {"tree_hash", "doc_id"}),
                !.tree_chunks = InsertOrIgnore(@, treeChunks, {"tree_hash", "chunk_id"})]

\* parents taken from HEAD
CommitParentsOfHead(d, branch) ==
  IF getRef(d, HEAD) # None THEN <<getRef(d, HEAD)>> ELSE <<>>

CommitParents(d, branch) ==
  IF getRef(d, branch) # None THEN <<getRef(d, branch)>> ELSE <<>>

\* the transaction body of commit_index when expected_parent agrees
CommitIndexDb(d, branch, message) ==
  LET parents == CommitParents(d, branch)
      t == createTreeFromCurrentState(d)
      d1 == saveTree(d, t.treeHash, t.entriesJson)
      d2 == FreezeTree(d1, t.treeHash, "legacy")
      d3 == createCommit(d2, t.treeHash, parents, message)
      commitHash == CommitHash(t.treeHash, parents)
  IN  updateRef(updateRef(d3, branch, commitHash), HEAD, commitHash)

\* a commit that does not look at expected_parent
CommitIndexUnchecked(branch, expected_parent, message) ==
  /\ pc = "idle"
  /\ Cardinality(DOMAIN db.commits) < MaxCommits
  /\ db' = CommitIndexDb(db, branch, message)
  /\ last' = Envelope("commit_index", None, <<>>)
  /\ UNCHANGED <<pc, call>>

CommitIndex(branch, expected_parent, message) ==
  LET currentTip == getRef(db, branch)
      t == createTreeFromCurrentState(db)
      parents == CommitParents(db, branch)
      commitHash == CommitHash(t.treeHash, parents)
  IN  /\ pc = "idle"
      /\ IF expected_parent # None /\ currentTip # expected_parent
         THEN /\ last' = ErrorEnvelope("commit_index", "ERR_REF_MISMATCH")
              /\ UNCHANGED db
         ELSE /\ \/ commitHash \in DOMAIN db.commits
                 \/ Cardinality(DOMAIN db.commits) < MaxCommits
              /\ db' = CommitIndexDb(db, branch, message)
              /\ last' = EnvelopeOf("commit_index",
                                    [branch |-> branch, expected_parent |-> expected_parent,
                                     message |-> message],
                                    [status |-> "committed", commit_hash |-> commitHash,
                                     tree_hash |-> t.treeHash, parents |-> parents,
                                     branch |-> branch, entries_count |-> t.rowCount],
                                    <<>>)
      /\ UNCHANGED <<pc, call>>

----------------------------------------------------------------------------
(* The registry of the tools, indexed at startup: the sys:tool documents   *)
(* are rewritten and the working tree is committed on main unless HEAD     *)
(* already has it.  One tool stands for the list; the blob statement names *)
(* the columns content_hash and text, the key and the payload of blobs.    *)

IndexSystemTools ==
  LET docId == "sys:tool:retrieve"
      manifestText == <<"m">>
      hash == Sha256(manifestText)
      d1 == [db EXCEPT
               !.blobs = PutOrReplace(@, hash, manifestText),
               !.documents = Put(@, docId, [content_hash |-> hash,
                                            title |-> "Tool: retrieve",
                                            updated_at |-> EPOCH]),
               !.chunks = Put([c \in {x \in DOMAIN @ : @[x].doc_id # docId} |-> @[c]],
                              "sys:tool:retrieve#def",
                              [doc_id |-> docId, text |-> manifestText,
                               span_start |-> 0, span_end |-> Len(manifestText),
                               content_hash |-> hash])]
      t == createTreeFromCurrentState(d1)
      currentHead == getRef(d1, HEAD)
      parents == IF currentHead # None THEN <<currentHead>> ELSE <<>>
      commitHash == CommitHash(t.treeHash, parents)
      d2 == createCommit(saveTree(d1, t.treeHash, t.entriesJson), t.treeHash, parents,
                         "System Bootstrap: Tool Registry Sync")
  IN  /\ pc = "idle"
      /\ IF currentHead # None /\ getTreeHashForCommit(d1, currentHead) = t.treeHash
         THEN db' = d1
         ELSE /\ \/ commitHash \in DOMAIN db.commits
                 \/ Cardinality(DOMAIN db.commits) < MaxCommits
              /\ db' = updateRef(updateRef(d2, MAIN, commitHash), HEAD, commitHash)
      /\ last' = Envelope("index_system_tools", None, <<>>)
      /\ UNCHANGED <<pc, call>>

----------------------------------------------------------------------------
(* The SQL engine on the FTS tables: a statement is applied to the store   *)
(* under the triggers and constraints of the schema, and yields the store  *)
(* after it and its outcome ("OK" or the code of the error it raises).     *)
(* The engine refuses CREATE TRIGGER on a virtual table ("cannot create    *)
(* triggers on virtual tables"), so none of the statements on              *)
(* fts_chunks_fts is subject to a trigger.                                  *)

\* COALESCE((SELECT enabled FROM fts_maintenance WHERE id=1), 0)
GateEnabled(d) ==
  IF \E g \in d.fts_maintenance : g.id = 1 /\ g.enabled = 1 THEN 1 ELSE 0

\* UPDATE fts_maintenance SET enabled = v WHERE id = 1
SqlUpdateGate(d, v) ==
  IF v \notin {0, 1} /\ \E g \in d.fts_maintenance : g.id = 1
  THEN [db |-> d, changes |-> 0, code |-> "SQLITE_CONSTRAINT_CHECK"]
  ELSE [db |-> [d EXCEPT !.fts_maintenance =
                           {IF g.id = 1 THEN [g EXCEPT !.enabled = v] ELSE g : g \in @}],
        changes |-> Cardinality({g \in d.fts_maintenance : g.id = 1}),
        code |-> "OK"]

\* INSERT INTO fts_maintenance(id, enabled) VALUES (id, enabled)
SqlInsertGate(d, id, enabled) ==
  IF \E g \in d.fts_maintenance : g.id = 1
  THEN [db |-> d, code |-> "SQLITE_CONSTRAINT_TRIGGER"]
  ELSE IF id # 1 \/ enabled \notin {0, 1}
  THEN [db |-> d, code |-> "SQLITE_CONSTRAINT_CHECK"]
  ELSE [db |-> [d EXCEPT !.fts_maintenance = @ \cup {[id |-> id, enabled |-> enabled]}],
        code |-> "OK"]

\* a DELETE FROM fts_maintenance that no trigger stops
DeleteWithoutTrigger(d) ==
  [db |-> [d EXCEPT !.fts_maintenance = {}], code |-> "OK"]

\* DELETE FROM fts_maintenance: the trigger fires once a row is to go
SqlDeleteGate(d) ==
  IF d.fts_maintenance # {}
  THEN [db |-> d, code |-> "SQLITE_CONSTRAINT_TRIGGER"]
  ELSE [db |-> d, code |-> "OK"]

\* INSERT INTO fts_chunks_fts(rowid, text) VALUES (rowid, text)
IndexInsert(d, rowid, text) ==
  [d EXCEPT !.fts_chunks_fts = @ \cup {[rowid |-> rowid, text |-> text]}]

\* INSERT INTO fts_chunks_fts(fts_chunks_fts, rowid, text) VALUES('delete', ..)
IndexDelete(d, rowid, text) ==
  [d EXCEPT !.fts_chunks_fts = @ \ {[rowid |-> rowid, text |-> text]}]

\* INSERT INTO fts_chunks (rowid, ...) VALUES (...)
SqlInsertFtsChunks(d, row) ==
  IF GateEnabled(d) = 0
  THEN [db |-> d, code |-> "SQLITE_CONSTRAINT_TRIGGER"]
  ELSE IF \E x \in d.fts_chunks : x.rowid = row.rowid
  THEN [db |-> d, code |-> "SQLITE_CONSTRAINT_PRIMARYKEY"]
  ELSE IF \E x \in d.fts_chunks : SameTreeChunk(x, row)
  THEN [db |-> d, code |-> "SQLITE_CONSTRAINT_UNIQUE"]
  ELSE IF \/ row.tree_hash \notin DOMAIN d.trees
          \/ ~\E tc \in d.tree_chunks : SameTreeChunk(tc, row)
  THEN [db |-> d, code |-> "SQLITE_CONSTRAINT_FOREIGNKEY"]
  ELSE [db |-> IndexInsert([d EXCEPT !.fts_chunks = @ \cup {row}], row.rowid, row.text),
        code |-> "OK"]

\* a DELETE FROM fts_chunks that the trigger fts_chunks_ad does not follow
DeleteWithoutMirror(d, gone) ==
  [db |-> [d EXCEPT !.fts_chunks = @ \ gone], code |-> "OK"]

\* DELETE FROM fts_chunks WHERE <the rows of gone>
SqlDeleteFtsChunks(d, gone) ==
  IF gone = {} THEN [db |-> d, code |-> "OK"]
  ELSE IF GateEnabled(d) = 0
  THEN [db |-> d, code |-> "SQLITE_CONSTRAINT_TRIGGER"]
  ELSE [db |-> [d EXCEPT !.fts_chunks = @ \ gone,
                         !.fts_chunks_fts =
                            @ \ {[rowid |-> x.rowid, text |-> x.text] : x \in gone}],
        code |-> "OK"]

\* UPDATE fts_chunks SET ... WHERE <the rows of hit>
SqlUpdateFtsChunks(d, hit) ==
  IF hit = {} THEN [db |-> d, code |-> "OK"]
  ELSE [db |-> d, code |-> "SQLITE_CONSTRAINT_TRIGGER"]

----------------------------------------------------------------------------
(* build_fts_tree.  The tool runs in one synchronous transaction; the      *)
(* model takes it in steps (the call and its preflight, one step per row,  *)
(* the registration, the finally block, the return) so that the states     *)
(* inside the rebuild body can be observed.  No other operation runs       *)
(* between the steps: the process is single-threaded.                      *)

\* the leading bytes of sha256(`${treeHash}:${chunkId}:${attempt}`), of which
\* the model keeps RowidBits bits
Digest(treeHash, chunkId, attempt) ==
  (Len(treeHash.sha256) + ChunkRank(chunkId) + attempt) % (2 ^ RowidBits)

rowidFor(treeHash, chunkId, attempt) ==
  LET u63 == Digest(treeHash, chunkId, attempt)
  IN  IF u63 = 0 THEN 1 ELSE u63

\* SELECT ... FROM tree_chunks tc JOIN tree_docs td JOIN blobs b
\* WHERE tc.tree_hash = ? ORDER BY tc.chunk_id ASC
HydrationRows(d, treeHash) ==
  LET joined == {q \in {tc \in d.tree_chunks : tc.tree_hash = treeHash}
                          \X {td \in d.tree_docs : td.tree_hash = treeHash} :
                   /\ q[2].doc_id = q[1].doc_id
                   /\ q[2].blob_hash \in DOMAIN d.blobs}
  IN  SortSet({[chunk_id |-> q[1].chunk_id, doc_id |-> q[1].doc_id,
                span_start |-> q[1].span_start, span_end |-> q[1].span_end,
                expected_chunk_hash |-> q[1].content_hash,
                doc_bytes |-> d.blobs[q[2].blob_hash]] : q \in joined}, ByChunkId)

\* a payload read from tree_chunks, the table the build reads, and not from
\* fts_chunks, the table it writes
PayloadOfTreeChunks(d, treeHash) ==
  SortSet({[chunk_id |-> x.chunk_id, content_hash |-> x.content_hash] :
             x \in {y \in d.tree_chunks : y.tree_hash = treeHash}}, ByChunkId)

\* SELECT chunk_id, content_hash FROM fts_chunks WHERE tree_hash = ?
\* ORDER BY chunk_id ASC
CurrentPayload(d, treeHash) ==
  SortSet({[chunk_id |-> x.chunk_id, content_hash |-> x.content_hash] :
             x \in {y \in d.fts_chunks : y.tree_hash = treeHash}}, ByChunkId)

PayloadHash(payloadRows) == Sha256(canonicalize(JsonArray(payloadRows)))

Manifest(treeHash, payloadRows) ==
  [kind |-> FTS_KIND, tokenizer |-> TOKENIZER, tree_hash |-> treeHash,
   payload_hash |-> PayloadHash(payloadRows), chunk_count |-> Len(payloadRows),
   rowid_strategy |-> ROWID_STRATEGY, fts_sync |-> FTS_SYNC_STRATEGY]

\* an artifact id that also depends on the commit the build went through
ArtifactIdOfCommit(treeHash, payloadRows) ==
  Sha256(canonicalize([manifest |-> Manifest(treeHash, payloadRows),
                       payload_hash |-> PayloadHash(payloadRows),
                       commit |-> call.commitHash]))

ArtifactId(treeHash, payloadRows) ==
  Sha256(canonicalize([manifest |-> Manifest(treeHash, payloadRows),
                       payload_hash |-> PayloadHash(payloadRows)]))

\* a lookup of the existing artifact that finds no row
NoArtifactFound(d, treeHash) == None

\* the existing FTS artifact of a tree (model_id IS NULL), or None
ExistingArtifact(d, treeHash) ==
  LET found == {a \in d.index_artifacts :
                  a.tree_hash = treeHash /\ a.kind = FTS_KIND /\ a.model_id = None}
  IN  IF found = {} THEN None ELSE CHOOSE a \in found : TRUE

\* the insert loop of one hydrated row: the store after it and the error
\* thrown ("" when the row counts as inserted)
RECURSIVE InsertWithRetry(_, _, _, _, _)
InsertWithRetry(d, treeHash, r, chunkText, attempt) ==
  IF attempt >= MaxAttempts THEN [db |-> d, error |-> "ERR_ROWID_COLLISION"]
  ELSE
    LET rowid == rowidFor(treeHash, r.chunk_id, attempt)
        res == SqlInsertFtsChunks(d,
                 [rowid |-> rowid, tree_hash |-> treeHash, chunk_id |-> r.chunk_id,
                  doc_id |-> r.doc_id, span_start |-> r.span_start,
                  span_end |-> r.span_end, content_hash |-> r.expected_chunk_hash,
                  text |-> chunkText])
    IN  CASE res.code = "OK" -> [db |-> res.db, error |-> ""]
          [] res.code = "SQLITE_CONSTRAINT_PRIMARYKEY" ->
               IF \E x \in d.fts_chunks :
                    x.rowid = rowid /\ x.tree_hash = treeHash /\ x.chunk_id = r.chunk_id
               THEN [db |-> d, error |-> ""]
               ELSE InsertWithRetry(d, treeHash, r, chunkText, attempt + 1)
          [] res.code = "SQLITE_CONSTRAINT_UNIQUE" ->
               IF \E x \in d.fts_chunks :
                    /\ x.tree_hash = treeHash /\ x.chunk_id = r.chunk_id
                    /\ x.content_hash = r.expected_chunk_hash
               THEN [db |-> d, error |-> ""]
               ELSE [db |-> d, error |-> "ERR_DATA_CORRUPTION"]
          [] OTHER -> [db |-> d, error |-> res.code]

HydrateRow(d, treeHash, r) ==
  LET docText == NFKC(r.doc_bytes)
      chunkText == Substring(docText, r.span_start, r.span_end)
  IN  IF Sha256(chunkText) # r.expected_chunk_hash
      THEN [db |-> d, error |-> "ERR_DATA_CORRUPTION"]
      ELSE InsertWithRetry(d, treeHash, r, chunkText, 0)

\* an INSERT OR REPLACE that checks no foreign key
ReplaceUnchecked(d, row) ==
  [db |-> [d EXCEPT !.index_artifacts =
                  {x \in @ : ~(\/ x.artifact_id = row.artifact_id
                               \/ /\ x.tree_hash = row.tree_hash /\ x.kind = row.kind
                                  /\ x.model_id = row.model_id)} \cup {row}],
   code |-> "OK"]

\* INSERT OR REPLACE INTO index_artifacts
SqlReplaceArtifact(d, row) ==
  LET conflicting == {x \in d.index_artifacts :
                        \/ x.artifact_id = row.artifact_id
                        \/ /\ x.tree_hash = row.tree_hash /\ x.kind = row.kind
                           /\ x.model_id = row.model_id}
      after == (d.index_artifacts \ conflicting) \cup {row}
  IN  IF \/ row.tree_hash \notin DOMAIN d.trees
         \/ \E ar \in d.artifact_refs : \A x \in after : x.artifact_id # ar.artifact_id
      THEN [db |-> d, code |-> "SQLITE_CONSTRAINT_FOREIGNKEY"]
      ELSE [db |-> [d EXCEPT !.index_artifacts = after], code |-> "OK"]

\* INSERT INTO artifact_refs ... ON CONFLICT(ref_type, ref_name, kind) DO UPDATE
upsertRef(d, refType, refName, artifactId, kind) ==
  [d EXCEPT !.artifact_refs =
     {x \in @ : ~(x.ref_type = refType /\ x.ref_name = refName /\ x.kind = kind)}
       \cup {[ref_type |-> refType, ref_name |-> refName,
              artifact_id |-> artifactId, kind |-> kind]}]

NoCall == [ref |-> None]

\* the tables a build_fts_tree transaction writes
BuildTables ==
  {"fts_maintenance", "fts_chunks", "fts_chunks_fts", "index_artifacts", "artifact_refs"}

\* BEGIN: what ROLLBACK will restore
Begin(d) == [t \in BuildTables |-> d[t]]

\* a ROLLBACK that keeps what the transaction wrote
RollbackNothing(d, snapshot) == d

\* ROLLBACK to the tables as they were at BEGIN
Rollback(d, snapshot) ==
  [t \in DOMAIN d |-> IF t \in BuildTables THEN snapshot[t] ELSE d[t]]

\* a tool returns without having touched the store
Returns(envelope) ==
  /\ last' = envelope
  /\ UNCHANGED <<db, pc, call>>

\* a count of the rows of fts_chunks, whatever their tree
RowsOfAnyTree(d, treeHash) == d.fts_chunks

\* SELECT COUNT(*) FROM fts_chunks WHERE tree_hash = ?: the rows counted
TreeRows(d, treeHash) == {x \in d.fts_chunks : x.tree_hash = treeHash}

\* a force delete without its WHERE clause
DeleteEveryTree(d, treeHash) == d.fts_chunks

\* DELETE FROM fts_chunks WHERE tree_hash = ?: the rows addressed
ForceDeleteRows(d, treeHash) == {x \in d.fts_chunks : x.tree_hash = treeHash}

\* the call up to the start of the loop over the rows: resolution, the
\* preflight checks, BEGIN, the gate's opening, the force delete, the SELECT
BuildFtsTreeCall(ref, force_rebuild) ==
  LET commitHash == resolveTarget(db, ref)
      treeHash == getTreeHashForCommit(db, commitHash)
      existing == ExistingArtifact(db, treeHash)
      treeRows == TreeRows(db, treeHash)
      gateResult == SqlUpdateGate(db, 1)
      deleted == IF force_rebuild
                 THEN SqlDeleteFtsChunks(gateResult.db,
                                         ForceDeleteRows(gateResult.db, treeHash))
                 ELSE [db |-> gateResult.db, code |-> "OK"]
      locals == [ref |-> ref, force_rebuild |-> force_rebuild,
                 commitHash |-> commitHash, treeHash |-> treeHash,
                 snapshot |-> Begin(db), rows |-> HydrationRows(deleted.db, treeHash),
                 i |-> 1, payloadRows |-> <<>>,
                 artifactId |-> None, payloadHash |-> None,
                 error |-> IF deleted.code = "OK" THEN "" ELSE deleted.code]
  IN  /\ pc = "idle"
      /\ IF commitHash = None
         THEN Returns(ErrorEnvelope("build_fts_tree", "ERR_REF_NOT_FOUND"))
         ELSE IF treeHash = None
         THEN Returns(ErrorEnvelope("build_fts_tree", "ERR_TREE_MISSING"))
         ELSE IF ~\E tc \in db.tree_chunks : tc.tree_hash = treeHash
         THEN Returns(ErrorEnvelope("build_fts_tree", "ERR_NOT_FROZEN"))
         ELSE IF ~force_rebuild /\ existing # None
         THEN IF PayloadHash(CurrentPayload(db, treeHash)) # existing.content_hash
              THEN Returns(ErrorEnvelope("build_fts_tree", "ERR_ARTIFACT_DRIFT"))
              ELSE Returns(Envelope("build_fts_tree",
                                    [status |-> "skipped", reason |-> "artifact_exists",
                                     tree_hash |-> treeHash,
                                     artifact_id |-> existing.artifact_id], <<>>))
         ELSE IF ~force_rebuild /\ treeRows # {}
         THEN Returns(ErrorEnvelope("build_fts_tree", "ERR_DIRTY_STATE"))
         ELSE IF gateResult.changes # 1
         THEN \* thrown before the inner try: rollback, then the catch block
              /\ db' = SqlUpdateGate(db, 0).db
              /\ last' = ErrorEnvelope("build_fts_tree", "ERR_GATE_MISSING")
              /\ UNCHANGED <<pc, call>>
         ELSE /\ db' = deleted.db
              /\ call' = locals
              /\ pc' = IF locals.error = "" THEN "rows" ELSE "finally"
              /\ last' = Pending("build_fts_tree")

\* one iteration of the loop over the rows
BuildFtsTreeRow ==
  /\ pc = "rows"
  /\ call.i <= Len(call.rows)
  /\ LET r == call.rows[call.i]
         res == HydrateRow(db, call.treeHash, r)
     IN  /\ db' = res.db
         /\ IF res.error = ""
            THEN /\ call' = [call EXCEPT
                       !.i = @ + 1,
                       !.payloadRows = Append(@, [chunk_id |-> r.chunk_id,
                                                  content_hash |-> r.expected_chunk_hash])]
                 /\ pc' = "rows"
            ELSE /\ call' = [call EXCEPT !.error = res.error]
                 /\ pc' = "finally"
  /\ UNCHANGED last

\* after the loop: the completeness checks and the artifact's registration
BuildFtsTreeRegister ==
  /\ pc = "rows"
  /\ call.i > Len(call.rows)
  /\ LET treeHash == call.treeHash
         missing == \E tc \in db.tree_chunks :
                      /\ tc.tree_hash = treeHash
                      /\ ~\E fc \in db.fts_chunks : SameTreeChunk(fc, tc)
         extra == \E fc \in db.fts_chunks :
                    /\ fc.tree_hash = treeHash
                    /\ ~\E tc \in db.tree_chunks : SameTreeChunk(tc, fc)
         artifactId == ArtifactId(treeHash, call.payloadRows)
         replaced == SqlReplaceArtifact(db,
                       [artifact_id |-> artifactId, tree_hash |-> treeHash,
                        kind |-> FTS_KIND, model_id |-> None,
                        manifest_json |-> canonicalize(Manifest(treeHash, call.payloadRows)),
                        content_hash |-> PayloadHash(call.payloadRows),
                        created_at |-> EPOCH])
         d1 == upsertRef(replaced.db, "commit", call.commitHash, artifactId, FTS_KIND)
         d2 == IF call.ref \in {HEAD, MAIN}
               THEN upsertRef(d1, "ref", call.ref, artifactId, FTS_KIND) ELSE d1
     IN  IF missing \/ extra \/ replaced.code # "OK"
         THEN /\ call' = [call EXCEPT !.error =
                            IF missing THEN "ERR_FTS_INCOMPLETE"
                            ELSE IF extra THEN "ERR_FTS_EXTRA_ROWS" ELSE replaced.code]
              /\ UNCHANGED db
         ELSE /\ db' = d2
              /\ call' = [call EXCEPT !.artifactId = artifactId,
                                      !.payloadHash = PayloadHash(call.payloadRows)]
  /\ pc' = "finally"
  /\ UNCHANGED last

\* a finally block that leaves the gate as the body left it
FinallyWithoutLock ==
  /\ pc = "finally"
  /\ pc' = "end"
  /\ UNCHANGED <<db, call, last>>

\* finally: the gate is locked, whatever the body did
BuildFtsTreeFinally ==
  /\ pc = "finally"
  /\ db' = SqlUpdateGate(db, 0).db
  /\ pc' = "end"
  /\ UNCHANGED <<call, last>>

\* the transaction ends (COMMIT, or ROLLBACK and the catch block) and the
\* tool returns its envelope
BuildFtsTreeReturn ==
  /\ pc = "end"
  /\ IF call.error # ""
     THEN /\ db' = SqlUpdateGate(Rollback(db, call.snapshot), 0).db
          /\ last' = ErrorEnvelope("build_fts_tree", call.error)
     ELSE /\ UNCHANGED db
          /\ last' = Envelope("build_fts_tree",
                        [status |-> "success", tree_hash |-> call.treeHash,
                         resolved_commit |-> call.commitHash,
                         artifact_id |-> call.artifactId,
                         chunks_indexed |-> Len(call.payloadRows),
                         payload_hash |-> call.payloadHash], <<>>)
  /\ pc' = "idle"
  /\ call' = NoCall

----------------------------------------------------------------------------
(* checkout_index *)

TreeDocRows(d, treeHash) ==
  SortSet({x \in d.tree_docs : x.tree_hash = treeHash}, ByDocId)

TreeChunkRows(d, treeHash) ==
  SortSet({x \in d.tree_chunks : x.tree_hash = treeHash}, ByDocThenChunk)

\* the title of the first entry of the document, null when it has none
TitleByDoc(entries, docId) ==
  LET own == SelectSeq(entries, LAMBDA e : e.doc_id = docId)
  IN  IF own = <<>> THEN NoTitle ELSE own[1].title

\* the working tables rewritten from a tree: the store after it and the
\* code of the error thrown ("" when none)
materializeTree(d, treeHash) ==
  LET entries == getTreeEntries(d, treeHash)
      docRows == TreeDocRows(d, treeHash)
      chunkRows == TreeChunkRows(d, treeHash)
      docOf(docId) == CHOOSE x \in Range(docRows) : x.doc_id = docId
      documents == [docId \in {x.doc_id : x \in Range(docRows)} |->
                      [content_hash |-> docOf(docId).content_hash,
                       title |-> TitleByDoc(entries, docId),
                       updated_at |-> EPOCH]]
      chunkOf(chunkId) == CHOOSE x \in Range(chunkRows) : x.chunk_id = chunkId
      chunks == [chunkId \in {x.chunk_id : x \in Range(chunkRows)} |->
                   LET c == chunkOf(chunkId)
                       docText == d.blobs[docOf(c.doc_id).blob_hash]
                   IN  [doc_id |-> c.doc_id,
                        text |-> Substring(docText, c.span_start, c.span_end),
                        span_start |-> c.span_start, span_end |-> c.span_end,
                        content_hash |-> c.content_hash]]
  IN  IF treeHash \notin DOMAIN d.trees
      THEN [db |-> d, error |-> "ERR_TREE_NOT_FOUND"]
      ELSE IF docRows = <<>> THEN [db |-> d, error |-> "ERR_TREE_DOCS_MISSING"]
      ELSE IF chunkRows = <<>> THEN [db |-> d, error |-> "ERR_TREE_CHUNKS_MISSING"]
      ELSE IF \E x \in Range(docRows) : x.blob_hash \notin DOMAIN d.blobs
      THEN [db |-> d, error |-> "ERR_BLOB_MISSING"]
      ELSE [db |-> [d EXCEPT !.documents = documents, !.chunks = chunks],
            error |-> ""]

\* a dry run that moves HEAD
CheckoutDryRunMovesHead(target, update_branch, mode) ==
  /\ pc = "idle"
  /\ resolveTarget(db, target) \in DOMAIN db.commits
  /\ db' = updateRef(db, HEAD, resolveTarget(db, target))
  /\ last' = Envelope("checkout_index",
                      [mode |-> "dry_run", would_checkout |-> TRUE,
                       target_commit |-> resolveTarget(db, target)], <<>>)
  /\ UNCHANGED <<pc, call>>

CheckoutIndex(target, update_branch, mode) ==
  LET commit == resolveTarget(db, target)
      treeHash == getTreeHashForCommit(db, commit)
      entries == getTreeEntries(db, treeHash)
      docRows == TreeDocRows(db, treeHash)
      out == materializeTree(db, treeHash)
      d1 == updateRef(out.db, HEAD, commit)
      d2 == IF update_branch # None THEN updateRef(d1, update_branch, commit) ELSE d1
  IN  /\ pc = "idle"
      /\ IF commit = None
         THEN Returns(ErrorEnvelope("checkout_index", "ERR_REF_NOT_FOUND"))
         ELSE IF treeHash = None
         THEN Returns(ErrorEnvelope("checkout_index", "ERR_TREE_HASH_MISSING"))
         ELSE IF treeHash \notin DOMAIN db.trees
         THEN Returns(ErrorEnvelope("checkout_index", "ERR_TREE_NOT_FOUND"))
         ELSE IF docRows = <<>> \/ ~\E x \in db.tree_chunks : x.tree_hash = treeHash
         THEN Returns(ErrorEnvelope("checkout_index", "ERR_TREE_PAYLOAD_MISSING"))
         ELSE IF \E x \in Range(docRows) : x.blob_hash \notin DOMAIN db.blobs
         THEN Returns(ErrorEnvelope("checkout_index", "ERR_BLOB_MISSING"))
         ELSE IF mode = "dry_run"
         THEN Returns(Envelope("checkout_index",
                               [mode |-> "dry_run", would_checkout |-> TRUE,
                                target_commit |-> commit, tree_hash |-> treeHash,
                                entries_count |-> Len(entries),
                                would_update_head |-> TRUE,
                                would_update_branch |-> update_branch], <<>>))
         ELSE /\ db' = d2
              /\ last' = Envelope("checkout_index",
                                  [mode |-> "commit", target_commit |-> commit,
                                   tree_hash |-> treeHash,
                                   entries_count |-> Len(entries),
                                   checked_out |-> TRUE, head |-> commit,
                                   branch_updated |-> update_branch], <<>>)
              /\ UNCHANGED <<pc, call>>

----------------------------------------------------------------------------
(* gc_artifacts.  The lists of the plan are sorted and free of duplicates  *)
(* (but for reachable.refs, which follows keep_refs): a list is modelled   *)
(* as the set of its elements.  keep_refs or kinds omitted is the empty    *)
(* list: the code treats the two alike.                                    *)

getCommit(d, commitHash) ==
  IF commitHash \in DOMAIN d.commits THEN d.commits[commitHash] ELSE None

\* a walk that stops at the roots
WalkRootsOnly(d, seen) == seen

\* a walk along the first parents only
RECURSIVE WalkFirstParents(_, _)
WalkFirstParents(d, seen) ==
  LET next == seen \cup
              {JsonParse(d.commits[h].parents_json).array[1] :
                 h \in {x \in seen \cap DOMAIN d.commits :
                          Len(JsonParse(d.commits[x].parents_json).array) > 0}}
  IN  IF next = seen THEN seen ELSE WalkFirstParents(d, next)

\* the commits the walk over the parents visits from the commits of seen
RECURSIVE Walk(_, _)
Walk(d, seen) ==
  LET next == seen \cup
              UNION {Range(JsonParse(d.commits[h].parents_json).array) :
                       h \in seen \cap DOMAIN d.commits}
  IN  IF next = seen THEN seen ELSE Walk(d, next)

\* roots that fall back to every ref when none of the names resolves
GcRefRowsOrAll(d, keep_refs) ==
  IF \E i \in DOMAIN keep_refs : getRef(d, keep_refs[i]) # None
  THEN {[ref_name |-> r, commit_hash |-> getRef(d, r)] :
          r \in {x \in Range(keep_refs) : getRef(d, x) # None}}
  ELSE {[ref_name |-> r, commit_hash |-> d.refs[r]] : r \in DOMAIN d.refs}

\* the root refs: keep_refs that resolve, or every ref when none is given
GcRefRows(d, keep_refs) ==
  IF Len(keep_refs) > 0
  THEN {[ref_name |-> r, commit_hash |-> getRef(d, r)] :
          r \in {x \in Range(keep_refs) : getRef(d, x) # None}}
  ELSE {[ref_name |-> r, commit_hash |-> d.refs[r]] : r \in DOMAIN d.refs}

GcPlan(d, keep_refs, kinds) ==
  LET refRows == GcRefRows(d, keep_refs)
      reachableCommits == Walk(d, {r.commit_hash : r \in refRows})
      reachableTrees == {getTreeHashForCommit(d, ch) :
                           ch \in {c \in reachableCommits :
                                     getTreeHashForCommit(d, c) # None}}
      artifacts == {a \in d.index_artifacts :
                      Len(kinds) = 0 \/ a.kind \in Range(kinds)}
      deleteArtifacts == {[artifact_id |-> a.artifact_id, tree_hash |-> a.tree_hash,
                           kind |-> a.kind] :
                            a \in {x \in artifacts : x.tree_hash \notin reachableTrees}}
      deleteEmbTrees == {e.tree_hash : e \in d.chunk_embeddings} \ reachableTrees
  IN  [reachable |-> [refs |-> refRows, commits |-> reachableCommits,
                      trees |-> reachableTrees],
       delete |-> [artifact_refs |-> {[kind |-> a.kind, artifact_id |-> a.artifact_id] :
                                        a \in deleteArtifacts},
                   index_artifacts |-> deleteArtifacts,
                   chunk_embeddings_tree_hashes |-> deleteEmbTrees]]

\* a transaction that leaves the embeddings in place
GcDeleteArtifactsOnly(d, plan) ==
  [d EXCEPT
     !.artifact_refs =
        {x \in @ : ~\E a \in plan.delete.index_artifacts :
                      x.artifact_id = a.artifact_id /\ x.kind = a.kind},
     !.index_artifacts =
        {x \in @ : ~\E a \in plan.delete.index_artifacts :
                      x.artifact_id = a.artifact_id}]

\* a transaction that also drops the FTS rows of the trees it deletes
GcDeleteWithRows(d, plan) ==
  [d EXCEPT
     !.artifact_refs =
        {x \in @ : ~\E a \in plan.delete.index_artifacts :
                      x.artifact_id = a.artifact_id /\ x.kind = a.kind},
     !.index_artifacts =
        {x \in @ : ~\E a \in plan.delete.index_artifacts :
                      x.artifact_id = a.artifact_id},
     !.chunk_embeddings =
        {x \in @ : x.tree_hash \notin plan.delete.chunk_embeddings_tree_hashes},
     !.fts_chunks =
        {x \in @ : ~\E a \in plan.delete.index_artifacts : x.tree_hash = a.tree_hash}]

\* the transaction of gc_artifacts in commit mode
GcDelete(d, plan) ==
  [d EXCEPT
     !.artifact_refs =
        {x \in @ : ~\E a \in plan.delete.index_artifacts :
                      x.artifact_id = a.artifact_id /\ x.kind = a.kind},
     !.index_artifacts =
        {x \in @ : ~\E a \in plan.delete.index_artifacts :
                      x.artifact_id = a.artifact_id},
     !.chunk_embeddings =
        {x \in @ : x.tree_hash \notin plan.delete.chunk_embeddings_tree_hashes}]

\* a run that deletes whatever the mode
GcAlwaysDeletes(mode, keep_refs, kinds) ==
  /\ pc = "idle"
  /\ db' = GcDelete(db, GcPlan(db, keep_refs, kinds))
  /\ last' = Envelope("gc_artifacts",
                      [mode |-> mode, plan |-> GcPlan(db, keep_refs, kinds)], <<>>)
  /\ UNCHANGED <<pc, call>>

GcArtifacts(mode, keep_refs, kinds) ==
  LET plan == GcPlan(db, keep_refs, kinds)
  IN  /\ pc = "idle"
      /\ IF mode = "dry_run"
         THEN Returns(Envelope("gc_artifacts", [mode |-> "dry_run", plan |-> plan], <<>>))
         ELSE /\ db' = GcDelete(db, plan)
              /\ last' = Envelope("gc_artifacts",
                           [mode |-> "commit",
                            deleted |->
                              [artifact_refs |-> Cardinality(plan.delete.index_artifacts),
                               index_artifacts |-> Cardinality(plan.delete.index_artifacts),
                               chunk_embeddings_tree_hashes |->
                                 Cardinality(plan.delete.chunk_embeddings_tree_hashes)],
                            plan |-> plan], <<>>)
              /\ UNCHANGED <<pc, call>>

----------------------------------------------------------------------------
(* build_embeddings, with the local provider *)

EMB_KIND == "chunk_embeddings"
LOCAL_PROVIDER == "local:hash-embedding"
DefaultDims == 256
DefaultBatch == 128
DefaultCandidates == 50

normalizeDims(input, fallback) == IF input # NULL /\ input > 0 THEN input ELSE fallback

\* deriveVector: dims numbers drawn from the digests of the text
deriveVector(text, dims) == [vector_of |-> text, length |-> dims]

\* provider.embed, batch by batch, over the working chunks in chunk_id
\* order: the vectors of the build.  The local provider derives every vector
\* with the same dims; a remote provider returns what the service answers,
\* one length per batch (it refuses a batch of mixed lengths itself), and
\* lens[b] is the length the service chose for batch b.
EmbedBatches(d, provider_id, dimensions, batch_size, lens) ==
  LET chunks == SortSet(WorkingChunkRows(d), ByChunkId)
  IN  [i \in DOMAIN chunks |->
         [chunk_id |-> chunks[i].chunk_id,
          vec |-> IF provider_id = LOCAL_PROVIDER
                  THEN deriveVector(chunks[i].text, normalizeDims(dimensions, DefaultDims))
                  ELSE [vector_of |-> chunks[i].text,
                        length |-> lens[((i - 1) \div batch_size) + 1]]]]

\* the transaction of build_embeddings over the vectors of the working chunks
EmbeddingsTx(d, ref, resolved, treeHash, provider_id, dimensions, vectors) ==
  LET dims == IF Len(vectors) = 0 THEN 0 ELSE vectors[1].vec.length
      rows == {[tree_hash |-> treeHash, chunk_id |-> it.chunk_id, model_id |-> provider_id,
                embedding |-> it.vec, dims |-> dims,
                content_hash |-> Sha256(it.vec)] : it \in Range(vectors)}
      entries == IF treeHash \in DOMAIN d.trees THEN getTreeEntries(d, treeHash) ELSE <<>>
      manifest == [kind |-> EMB_KIND, tree_hash |-> treeHash, provider_id |-> provider_id,
                   dims |-> dims, dimensions |-> dimensions, chunk_count |-> Len(vectors),
                   tree_entries_hash |-> computeHash(entries)]
      manifest_hash == Sha256(canonicalize(manifest))
      artifact_id == Sha256(canonicalize([kind |-> EMB_KIND, tree_hash |-> treeHash,
                                          provider_id |-> provider_id, dims |-> dims,
                                          manifest_hash |-> manifest_hash]))
      d1 == [d EXCEPT !.chunk_embeddings =
               {x \in @ : ~\E r \in rows : /\ x.tree_hash = r.tree_hash
                                            /\ x.chunk_id = r.chunk_id
                                            /\ x.model_id = r.model_id} \cup rows]
      replaced == SqlReplaceArtifact(d1,
                    [artifact_id |-> artifact_id, tree_hash |-> treeHash, kind |-> EMB_KIND,
                     model_id |-> provider_id, manifest_json |-> canonicalize(manifest),
                     content_hash |-> manifest_hash, created_at |-> EPOCH])
      d2 == upsertRef(replaced.db, "commit", resolved, artifact_id, EMB_KIND)
      d3 == IF ref \in {HEAD, MAIN}
            THEN upsertRef(d2, "ref", ref, artifact_id, EMB_KIND) ELSE d2
  IN  IF treeHash \notin DOMAIN d.trees THEN [ok |-> FALSE, error |-> "ERR_TREE_NOT_FOUND"]
      ELSE IF dims <= 0 THEN [ok |-> FALSE, error |-> "ERR_EMBEDDING_DIMS"]
      ELSE IF replaced.code # "OK" THEN [ok |-> FALSE, error |-> replaced.code]
      ELSE [ok |-> TRUE, db |-> d3,
            result |-> [status |-> "built", ref |-> ref, resolved_commit |-> resolved,
                        tree_hash |-> treeHash, artifact_id |-> artifact_id,
                        provider_id |-> provider_id, dims |-> dims,
                        chunk_count |-> Len(vectors), manifest_hash |-> manifest_hash]]

\* a constraint error leaves the transaction rolled back and the call rejected
BuildEmbeddings(ref, provider_id, dimensions, batch_size) ==
  LET resolved == resolveTarget(db, ref)
      treeHash == getTreeHashForCommit(db, resolved)
      batches == 1..(((Cardinality(DOMAIN db.chunks) + batch_size - 1) \div batch_size))
      answers == IF provider_id = LOCAL_PROVIDER
                 THEN {[b \in batches |-> normalizeDims(dimensions, DefaultDims)]}
                 ELSE [batches -> 1..(MaxDimensions + 1)]
  IN  /\ pc = "idle"
      /\ IF resolved = None
         THEN Returns(ErrorEnvelope("build_embeddings", "ERR_REF_NOT_FOUND"))
         ELSE IF treeHash = None
         THEN Returns(ErrorEnvelope("build_embeddings", "ERR_TREE_HASH_MISSING"))
         ELSE IF createTreeFromCurrentState(db).treeHash # treeHash
         THEN Returns(ErrorEnvelope("build_embeddings", "ERR_WORKING_TREE_DIRTY"))
         ELSE \E lens \in answers :
                LET vectors == EmbedBatches(db, provider_id, dimensions, batch_size, lens)
                    out == EmbeddingsTx(db, ref, resolved, treeHash, provider_id,
                                        dimensions, vectors)
                IN  IF ~out.ok
                    THEN Returns(ErrorEnvelope("build_embeddings", out.error))
                    ELSE /\ db' = out.db
                         /\ last' = Envelope("build_embeddings", out.result, <<>>)
                         /\ UNCHANGED <<pc, call>>

----------------------------------------------------------------------------
(* build_embeddings with its suspensions.  The call awaits the provider    *)
(* once per batch; with a remote provider other calls run meanwhile.       *)
(* Everything up to the first await, and everything after the last, runs   *)
(* without a break.                                                         *)

\* a check that finds every working tree clean
AnyTreeClean(d, treeHash) == TRUE

\* currentTree === treeHash: the working tables hash to the target tree
WorkingTreeClean(d, treeHash) == createTreeFromCurrentState(d).treeHash = treeHash

\* the build that waits for an answer of the provider, if there is one
Suspended == IF "embedding" \in DOMAIN call THEN call.embedding ELSE None

\* entry: resolution, the clean-tree check, the SELECT of the chunks, and
\* the first provider.embed (with no chunk the loop is empty and the
\* transaction follows at once)
BuildEmbeddingsCall(ref, provider_id, dimensions, batch_size) ==
  LET resolved == resolveTarget(db, ref)
      treeHash == getTreeHashForCommit(db, resolved)
      out == EmbeddingsTx(db, ref, resolved, treeHash, provider_id, dimensions, <<>>)
  IN  /\ pc = "idle"
      /\ Suspended = None
      /\ IF resolved = None
         THEN Returns(ErrorEnvelope("build_embeddings", "ERR_REF_NOT_FOUND"))
         ELSE IF treeHash = None
         THEN Returns(ErrorEnvelope("build_embeddings", "ERR_TREE_HASH_MISSING"))
         ELSE IF ~WorkingTreeClean(db, treeHash)
         THEN Returns(ErrorEnvelope("build_embeddings", "ERR_WORKING_TREE_DIRTY"))
         ELSE IF DOMAIN db.chunks = {}
         THEN Returns(ErrorEnvelope("build_embeddings", out.error))
         ELSE /\ call' = [ref |-> None,
                          embedding |-> [ref |-> ref, resolved |-> resolved,
                                         treeHash |-> treeHash,
                                         provider_id |-> provider_id,
                                         dimensions |-> dimensions,
                                         batch_size |-> batch_size,
                                         chunks |-> db.chunks, lens |-> <<>>]]
              /\ UNCHANGED <<db, pc, last>>

\* a tree looked up again when the provider has answered
TreeAtAnswer(d, e) == getTreeHashForCommit(d, resolveTarget(d, e.ref))

\* the tree the transaction writes under: the constant resolved at entry
TreeAtEntry(d, e) == e.treeHash

\* the provider answers the batch awaited with vectors of length len: the
\* next batch is sent, or, after the last one, the transaction runs and the
\* tool returns
BuildEmbeddingsAnswer(len) ==
  /\ pc = "idle"
  /\ Suspended # None
  /\ LET e == Suspended
         lens == Append(e.lens, len)
         batches == (Cardinality(DOMAIN e.chunks) + e.batch_size - 1) \div e.batch_size
         vectors == EmbedBatches([db EXCEPT !.chunks = e.chunks], e.provider_id,
                                 e.dimensions, e.batch_size, lens)
         out == EmbeddingsTx(db, e.ref, e.resolved, TreeAtEntry(db, e), e.provider_id,
                             e.dimensions, vectors)
     IN  IF Len(lens) < batches
         THEN /\ call' = [call EXCEPT !.embedding.lens = lens]
              /\ UNCHANGED <<db, pc, last>>
         ELSE /\ call' = NoCall
              /\ pc' = pc
              /\ IF out.ok
                 THEN /\ db' = out.db
                      /\ last' = Envelope("build_embeddings", out.result, <<>>)
                 ELSE /\ db' = db
                      /\ last' = ErrorEnvelope("build_embeddings", out.error)

----------------------------------------------------------------------------
(* create_task. A datetime string is the instant it names and whether it   *)
(* is written with milliseconds, as toISOString writes it; a missing        *)
(* datetime is None, a missing interval NULL, a missing key "".             *)

TASK_NAMESPACE == "6ba7b810-9dad-11d1-80b4-00c04fd430c8"

uuidv5(name, namespace) == [uuidv5 |-> name, namespace |-> namespace]

Datetime(t, ms) == [seconds |-> t, milliseconds |-> ms]

toISOString(t) == Datetime(t, TRUE)

\* the string without the spaces before its first and after its last
\* character that is not one
trim(str) ==
  LET inked == {i \in DOMAIN str : str[i] # " "}
  IN  IF inked = {} THEN <<>>
      ELSE SubSeq(str, CHOOSE i \in inked : \A j \in inked : i <= j,
                       CHOOSE i \in inked : \A j \in inked : i >= j)

toLowerCase(str) ==
  [i \in DOMAIN str |-> CASE str[i] = "R" -> "r" [] str[i] = "S" -> "s" [] OTHER -> str[i]]

\* a resolution that looks at the interval before run_at
NextRunAtIntervalFirst(task, reference_time) ==
  IF task.schedule.interval_seconds # NULL
  THEN IF reference_time = None THEN [ok |-> FALSE, code |-> "ERR_DETERMINISM"]
       ELSE [ok |-> TRUE,
             next_run_at |-> toISOString(reference_time.seconds
                                           + task.schedule.interval_seconds)]
  ELSE IF task.schedule.run_at # None
  THEN [ok |-> TRUE, next_run_at |-> task.schedule.run_at]
  ELSE [ok |-> FALSE, code |-> "ERR_INVALID_SCHEDULE"]

\* the resolution of next_run_at, or the code of the error
NextRunAt(task, reference_time) ==
  IF task.schedule.run_at # None THEN [ok |-> TRUE, next_run_at |-> task.schedule.run_at]
  ELSE IF task.schedule.interval_seconds # NULL
  THEN IF reference_time = None THEN [ok |-> FALSE, code |-> "ERR_DETERMINISM"]
       ELSE [ok |-> TRUE,
             next_run_at |-> toISOString(reference_time.seconds
                                           + task.schedule.interval_seconds)]
  ELSE [ok |-> FALSE, code |-> "ERR_INVALID_SCHEDULE"]

NormalizedTask(task, next_run_at) ==
  [title |-> trim(task.title), action |-> trim(toLowerCase(task.action)),
   payload |-> task.payload, schedule |-> [next_run_at |-> next_run_at]]

\* a task id drawn from the title of the task
TaskIdOfTitle(mode, idempotency_key, normalized_task) ==
  uuidv5(ToString(normalized_task.title), TASK_NAMESPACE)

\* a task id that is the same under every key
TaskIdOfNamespace(mode, idempotency_key, normalized_task) ==
  uuidv5(TASK_NAMESPACE, TASK_NAMESPACE)

TaskId(mode, idempotency_key, normalized_task) ==
  IF mode = "commit"
  THEN IF idempotency_key # "" THEN uuidv5(idempotency_key, TASK_NAMESPACE) ELSE ""
  ELSE uuidv5(computeHash(normalized_task), TASK_NAMESPACE)

CreateTask(task, mode, reference_time, idempotency_key) ==
  LET next == NextRunAt(task, reference_time)
      created_at == IF reference_time # None THEN reference_time
                    ELSE IF task.schedule.run_at # None THEN task.schedule.run_at
                    ELSE EPOCH
      normalized_task == NormalizedTask(task, next.next_run_at)
      task_json == canonicalize(normalized_task)
      task_id == TaskId(mode, idempotency_key, normalized_task)
      existing == db.tasks[task_id]
  IN  /\ pc = "idle"
      /\ IF ~next.ok
         THEN Returns(ErrorEnvelope("create_task", next.code))
         ELSE IF mode = "commit" /\ idempotency_key = ""
         THEN Returns(ErrorEnvelope("create_task", "ERR_IDEMPOTENCY_REQUIRED"))
         ELSE IF mode = "dry_run"
         THEN Returns(Envelope("create_task",
                               [would_create |-> TRUE, task_id |-> task_id,
                                normalized_task |-> normalized_task,
                                created_at |-> created_at,
                                next_run_at |-> next.next_run_at], <<>>))
         ELSE IF task_id \in DOMAIN db.tasks
         THEN Returns(Envelope("create_task",
                               [status |-> "idempotent_hit", task_id |-> task_id,
                                normalized_task |-> JsonParse(existing.task_json),
                                created_at |-> existing.created_at,
                                next_run_at |-> existing.next_run_at], <<>>))
         ELSE /\ db' = [db EXCEPT !.tasks =
                          Put(@, task_id,
                              [idempotency_key |-> idempotency_key,
                               task_json |-> task_json, status |-> "pending",
                               next_run_at |-> next.next_run_at,
                               created_at |-> created_at])]
              /\ last' = Envelope("create_task",
                                  [status |-> "created", task_id |-> task_id,
                                   normalized_task |-> normalized_task,
                                   created_at |-> created_at,
                                   next_run_at |-> next.next_run_at], <<>>)
              /\ UNCHANGED <<pc, call>>

----------------------------------------------------------------------------
(* buildEnvelope in full: the envelope, and the audit row that its queued  *)
(* microtask writes, or fails to write, under the request id. (In the      *)
(* specifications of the tools above the envelope is cut down to the        *)
(* fields Envelope keeps and the audit log is left out.)                    *)

\* an outputs_hash drawn from the result and the request id
OutputsHashOfRequest(opts, requestId) ==
  computeHash([result |-> opts.result, request_id |-> requestId])

OutputsHash(opts, requestId) == computeHash(opts.result)

\* uuid is what uuidv4() returns, now what new Date() reads
buildEnvelope(opts, uuid, now) ==
  LET requestId == IF "request_id" \in DOMAIN opts THEN opts.request_id ELSE uuid
  IN  [request_id |-> requestId,
       tool_name |-> opts.tool_name,
       tool_version |-> opts.tool_version,
       server_version |-> "1.0.0",
       inputs_hash |-> computeHash(opts.input),
       outputs_hash |-> OutputsHash(opts, requestId),
       result |-> opts.result,
       provenance |-> IF "provenance" \in DOMAIN opts THEN opts.provenance ELSE <<>>,
       warnings |-> IF "warnings" \in DOMAIN opts THEN opts.warnings ELSE <<>>,
       errors |-> IF "errors" \in DOMAIN opts THEN opts.errors ELSE <<>>,
       metrics |-> [timestamp |-> toISOString(now)]]

\* the audit writes queued by buildEnvelope and not yet run, oldest first
Microtasks == IF "microtasks" \in DOMAIN call THEN call.microtasks ELSE <<>>

\* a tool builds its envelope: the envelope is returned and the audit write
\* is queued as a microtask
BuildEnvelopeCall(opts, uuid, now) ==
  LET envelope == buildEnvelope(opts, uuid, now)
  IN  /\ pc = "idle"
      /\ Len(Microtasks) < MaxQueued
      /\ last' = envelope
      /\ call' = [ref |-> None, microtasks |-> Append(Microtasks, envelope)]
      /\ UNCHANGED <<db, pc>>

\* an audit write that lets a failure of the statement reach the caller
AuditWriteThrows(written) ==
  /\ Microtasks # <<>>
  /\ last' = IF written THEN last ELSE ErrorEnvelope(Head(Microtasks).tool_name, "ERR_AUDIT")
  /\ call' = IF Len(Microtasks) = 1 THEN NoCall
             ELSE [ref |-> None, microtasks |-> Tail(Microtasks)]
  /\ UNCHANGED <<db, pc>>

\* the queued microtask runs: written is whether its INSERT OR REPLACE
\* succeeds; a failure is swallowed
AuditWrite(written) ==
  LET envelope == Head(Microtasks)
  IN  /\ Microtasks # <<>>
      /\ db' = IF written
               THEN [db EXCEPT !.audit_log =
                       Put(@, envelope.request_id,
                           [tool_name |-> envelope.tool_name,
                            tool_version |-> envelope.tool_version,
                            inputs_hash |-> envelope.inputs_hash,
                            outputs_hash |-> envelope.outputs_hash,
                            envelope_json |-> [json |-> envelope],
                            created_at |-> envelope.metrics.timestamp])]
               ELSE db
      /\ call' = IF Len(Microtasks) = 1 THEN NoCall
                 ELSE [ref |-> None, microtasks |-> Tail(Microtasks)]
      /\ UNCHANGED <<pc, last>>

----------------------------------------------------------------------------
(* retrieve: full-text search over the working chunks *)

\* LocalStore.search, and the same statement in retrieve: the working
\* chunks that hold the query term, joined to their documents, best match
\* first.  chunks_fts indexes the text of chunks word by word (a character
\* of the model is a word).  bm25() of FTS5 is the BM25 relevance times -1:
\* negative, and the lower the better the match; what stands for it is the
\* share of the text that is the term, times -12.
Search(d, query, k) ==
  LET tf(text) == Cardinality({i \in DOMAIN text : text[i] = query})
      rows == {[chunk_id |-> r.chunk_id, doc_id |-> r.doc_id, text |-> r.text,
                span_start |-> r.span_start, span_end |-> r.span_end,
                content_hash |-> r.content_hash,
                title |-> d.documents[r.doc_id].title,
                score |-> 0 - ((12 * tf(r.text)) \div Len(r.text))] :
                 r \in {x \in WorkingChunkRows(d) :
                          x.doc_id \in DOMAIN d.documents /\ tf(x.text) > 0}}
      sorted == SortSet(rows, "bm25(chunks_fts), c.chunk_id ASC")
  IN  SubSeq(sorted, 1, Min(k, Len(sorted)))

Retrieve(query, k, index_version) ==
  LET headCommit == getRef(db, HEAD)
      currentTree == createTreeFromCurrentState(db).treeHash
      dirty == headCommit # None /\ getTreeHashForCommit(db, headCommit) # currentTree
      effectiveVersion == IF headCommit = None \/ dirty THEN currentTree ELSE headCommit
      warnings ==
        (IF headCommit = None THEN <<"WARN_NO_COMMITS">>
         ELSE IF dirty THEN <<"WARN_WORKING_TREE_DIRTY">> ELSE <<>>)
        \o (IF index_version # None /\ index_version # RefName("")
                /\ index_version # effectiveVersion
            THEN <<"WARN_VERSION_MISMATCH">> ELSE <<>>)
      rows == Search(db, query, k)
      chunks == [i \in DOMAIN rows |->
                  [chunk_id |-> rows[i].chunk_id, doc_id |-> rows[i].doc_id,
                   title |-> rows[i].title, text |-> rows[i].text,
                   score |-> rows[i].score,
                   span |-> [start |-> IF rows[i].span_start = NULL THEN 0
                                       ELSE rows[i].span_start,
                             end |-> IF rows[i].span_end = NULL THEN Len(rows[i].text)
                                     ELSE rows[i].span_end],
                   content_hash |-> rows[i].content_hash]]
  IN  /\ pc = "idle"
      /\ last' = [tool_name |-> "retrieve",
                  inputs_hash |-> computeHash([query |-> query, k |-> k,
                                               index_version |-> index_version]),
                  result |-> [chunks |-> chunks, index_version |-> effectiveVersion],
                  warnings |-> warnings, errors |-> <<>>]
      /\ UNCHANGED <<db, pc, call>>

----------------------------------------------------------------------------
(* retrieve_with_embeddings: BM25 and cosine candidates, blended by alpha *)

\* minMaxNorm: every value moved into [0, 1], all 0 when the values are equal
minMaxNorm(vals) ==
  LET min == CHOOSE v \in Range(vals) : \A w \in Range(vals) : v <= w
      max == CHOOSE v \in Range(vals) : \A w \in Range(vals) : v >= w
  IN  IF vals = <<>> THEN <<>>
      ELSE IF max = min THEN [i \in DOMAIN vals |-> [num |-> 0, den |-> 1]]
      ELSE [i \in DOMAIN vals |-> [num |-> vals[i] - min, den |-> max - min]]

\* cosine of two derived vectors, in twelfths: 1 for the same vector, 0 for
\* vectors of different texts whose first words agree, and otherwise a value
\* fixed by the two texts (the numbers of a vector are drawn from digests of
\* its text, so that the angle between two vectors is an arbitrary but fixed
\* function of their texts)
cosine(a, b) ==
  IF a = b THEN 12
  ELSE IF a.vector_of[1] = b.vector_of[1] THEN 0
  ELSE ((5 * Len(a.vector_of) * Len(b.vector_of)) % 9) - 4

\* the candidates in the order of the Map: the BM25 rows first, then
\* the vector rows that are new, best cosine first; a score that is missing
\* is null, and counts as 0 in the normalisation
Candidates(bm25Rows, vecTop) ==
  LET old == {r.chunk_id : r \in Range(bm25Rows)}
      new == {v \in vecTop : v.chunk_id \notin old}
      vecBefore(x, y) == \/ x.cos > y.cos
                         \/ x.cos = y.cos /\ ChunkRank(x.chunk_id) < ChunkRank(y.chunk_id)
      cosOf(c) == IF \E v \in vecTop : v.chunk_id = c
                  THEN [num |-> (CHOOSE v \in vecTop : v.chunk_id = c).cos] ELSE None
  IN  [i \in 1..(Len(bm25Rows) + Cardinality(new)) |->
        IF i <= Len(bm25Rows)
        THEN [chunk_id |-> bm25Rows[i].chunk_id, bm25 |-> [num |-> bm25Rows[i].score],
              cos |-> cosOf(bm25Rows[i].chunk_id)]
        ELSE LET v == CHOOSE x \in new :
                        Cardinality({y \in new : vecBefore(y, x)}) = i - Len(bm25Rows) - 1
             IN  [chunk_id |-> v.chunk_id, bm25 |-> None, cos |-> [num |-> v.cos]]]

\* the tool with the local provider, which is the default one when no key
\* of the remote service is configured; alpha is 0 or 1
RetrieveWithEmbeddings(query, k, ref, dimensions, alpha, bm25_k, vector_k) ==
  LET commit == resolveTarget(db, ref)
      treeHash == getTreeHashForCommit(db, commit)
      artifact == {a \in db.index_artifacts : a.tree_hash = treeHash /\ a.kind = EMB_KIND}
      qVec == deriveVector(<<query>>, normalizeDims(dimensions, DefaultDims))
      embRows == {e \in db.chunk_embeddings :
                    /\ e.tree_hash = treeHash /\ e.model_id = LOCAL_PROVIDER
                    /\ e.chunk_id \in DOMAIN db.chunks
                    /\ db.chunks[e.chunk_id].doc_id \in DOMAIN db.documents}
      vecScores == {[chunk_id |-> e.chunk_id, cos |-> cosine(qVec, e.embedding)] :
                      e \in {x \in embRows : x.embedding.length = qVec.length}}
      vecBefore(x, y) == \/ x.cos > y.cos
                         \/ x.cos = y.cos /\ ChunkRank(x.chunk_id) < ChunkRank(y.chunk_id)
      vecTop == {x \in vecScores :
                   Cardinality({y \in vecScores : vecBefore(y, x)}) < vector_k}
      val(x) == IF x = None THEN 0 ELSE x.num
      \* the order of the rational numbers num / den, den > 0
      Less(x, y) == x.num * y.den < y.num * x.den
  IN  /\ pc = "idle"
      /\ IF commit = None
         THEN Returns(ErrorEnvelope("retrieve_with_embeddings", "ERR_REF_NOT_FOUND"))
         ELSE IF treeHash = None
         THEN Returns(ErrorEnvelope("retrieve_with_embeddings", "ERR_TREE_HASH_MISSING"))
         ELSE IF artifact = {}
         THEN Returns(ErrorEnvelope("retrieve_with_embeddings", "ERR_EMBEDDINGS_NOT_FOUND"))
         ELSE \E candidates \in {Candidates(Search(db, query, bm25_k), vecTop)} :
              \E bm25N \in {minMaxNorm([i \in DOMAIN candidates |-> val(candidates[i].bm25)])},
                 cosN \in {minMaxNorm([i \in DOMAIN candidates |-> val(candidates[i].cos)])} :
              \E hybrid \in {[i \in DOMAIN candidates |->
                                [num |-> alpha * bm25N[i].num * cosN[i].den
                                           + (1 - alpha) * cosN[i].num * bm25N[i].den,
                                 den |-> bm25N[i].den * cosN[i].den]]} :
              \E sorted \in {[n \in DOMAIN candidates |->
                                CHOOSE i \in DOMAIN candidates :
                                  Cardinality({j \in DOMAIN candidates :
                                     \/ Less(hybrid[i], hybrid[j])
                                     \/ ~Less(hybrid[j], hybrid[i])
                                          /\ ChunkRank(candidates[j].chunk_id)
                                               < ChunkRank(candidates[i].chunk_id)}) = n - 1]} :
                Returns(Envelope("retrieve_with_embeddings",
                  [chunks |-> [n \in 1..Min(k, Len(sorted)) |->
                      LET c == candidates[sorted[n]]
                      IN  [chunk_id |-> c.chunk_id, doc_id |-> db.chunks[c.chunk_id].doc_id,
                           title |-> db.documents[db.chunks[c.chunk_id].doc_id].title,
                           text |-> db.chunks[c.chunk_id].text, score |-> hybrid[sorted[n]],
                           signals |-> [bm25 |-> c.bm25, cos |-> c.cos,
                                        bm25_norm |-> bm25N[sorted[n]],
                                        cos_norm |-> cosN[sorted[n]]],
                           content_hash |-> db.chunks[c.chunk_id].content_hash]],
                   index_version |-> commit, tree_hash |-> treeHash,
                   embedding_provider |-> LOCAL_PROVIDER, alpha |-> alpha,
                   bm25_k |-> bm25_k, vector_k |-> vector_k], <<>>))

----------------------------------------------------------------------------
(* log_index: the first-parent history of a ref or commit                  *)

\* the loop of log_index: at most limit commits from current along the
\* first parents, ending at a hash that is not stored
RECURSIVE LogHistory(_, _, _)
LogHistory(d, current, limit) ==
  IF limit = 0 \/ getCommit(d, current) = None THEN <<>>
  ELSE LET commit == getCommit(d, current)
           parents == JsonParse(commit.parents_json).array
       IN  <<[commit_hash |-> current, tree_hash |-> commit.tree_hash,
              parents |-> parents, message |-> commit.message,
              created_at |-> commit.created_at]>>
           \o (IF Len(parents) > 0 THEN LogHistory(d, parents[1], limit - 1) ELSE <<>>)

LogIndex(ref, limit) ==
  LET currentHash == resolveTarget(db, ref)
      history == LogHistory(db, currentHash, limit)
  IN  /\ pc = "idle"
      /\ IF currentHash = None
         THEN Returns(Envelope("log_index",
                               [ref |-> ref, resolved_commit |-> None,
                                history |-> <<>>, count |-> 0],
                               <<"ERR_REF_NOT_FOUND">>))
         ELSE Returns(Envelope("log_index",
                               [ref |-> ref, resolved_commit |-> currentHash,
                                history |-> history, count |-> Len(history)], <<>>))

----------------------------------------------------------------------------
(* diff_index *)

\* diff_index reads fromRes.commit and toRes.commit, but resolveTarget
\* returns the hash itself, a string, whose property commit is undefined.
\* getCommit(undefined) cannot bind its parameter: either the driver throws,
\* and the server's wrapper answers ERR_TOOL_FAILURE, or no row is found
\* and the tool answers ERR_COMMIT_NOT_FOUND.  The merge of the two entry
\* lists is never reached.
DiffIndex(from_ref, to_ref) ==
  LET fromRes == resolveTarget(db, from_ref)
      toRes == resolveTarget(db, to_ref)
      input == [from_ref |-> from_ref, to_ref |-> to_ref]
  IN  /\ pc = "idle"
      /\ IF fromRes = None \/ toRes = None
         THEN Returns(EnvelopeOf("diff_index", input, None, <<"ERR_REF_NOT_FOUND">>))
         ELSE \E code \in {"ERR_TOOL_FAILURE", "ERR_COMMIT_NOT_FOUND"} :
                Returns(EnvelopeOf("diff_index", input, None, <<code>>))

----------------------------------------------------------------------------
(* Statements issued on the FTS tables directly, outside the tools (an     *)
(* operator's shell, a test): each runs in its own transaction, between    *)
(* two tool calls.                                                          *)

Statement(verb, table, res) ==
  [tool_name |-> "sql", verb |-> verb, table |-> table, code |-> res.code]

Runs(verb, table, res) ==
  /\ pc = "idle"
  /\ db' = res.db
  /\ last' = Statement(verb, table, res)
  /\ UNCHANGED <<pc, call>>

\* UPDATE fts_maintenance SET enabled = v WHERE id = 1
SqlSetGate(v) == Runs("UPDATE", "fts_maintenance", SqlUpdateGate(db, v))

\* INSERT INTO fts_maintenance(id, enabled) VALUES (id, enabled)
SqlInsertMaintenance(id, enabled) ==
  Runs("INSERT", "fts_maintenance", SqlInsertGate(db, id, enabled))

\* DELETE FROM fts_maintenance
SqlDeleteMaintenance == Runs("DELETE", "fts_maintenance", SqlDeleteGate(db))

\* the fts_chunks row of a frozen chunk, as build_fts_tree first tries it
ChunkRow(d, tc) ==
  LET td == CHOOSE x \in d.tree_docs : SameTreeDoc(x, tc)
  IN  [rowid |-> rowidFor(tc.tree_hash, tc.chunk_id, 0), tree_hash |-> tc.tree_hash,
       chunk_id |-> tc.chunk_id, doc_id |-> tc.doc_id,
       span_start |-> tc.span_start, span_end |-> tc.span_end,
       content_hash |-> tc.content_hash,
       text |-> Substring(d.blobs[td.blob_hash], tc.span_start, tc.span_end)]

\* INSERT INTO fts_chunks (...) VALUES (<the row of a frozen chunk>)
SqlInsertChunk(tc) ==
  Runs("INSERT", "fts_chunks", SqlInsertFtsChunks(db, ChunkRow(db, tc)))

\* DELETE FROM fts_chunks WHERE rowid = <that of row>
SqlDeleteChunk(row) ==
  Runs("DELETE", "fts_chunks", SqlDeleteFtsChunks(db, {row}))

\* UPDATE fts_chunks SET text = ... WHERE rowid = <that of row>
SqlUpdateChunk(row) ==
  Runs("UPDATE", "fts_chunks", SqlUpdateFtsChunks(db, {row}))

GhostText == <<"g">>

\* INSERT INTO fts_chunks_fts(rowid, text) VALUES (rowid, 'g')
SqlInsertIndex(rowid) ==
  Runs("INSERT", "fts_chunks_fts", [db |-> IndexInsert(db, rowid, GhostText), code |-> "OK"])

\* DELETE FROM fts_chunks_fts WHERE rowid = <that of row>: the entry of the
\* content row goes
SqlDeleteIndex(row) ==
  Runs("DELETE", "fts_chunks_fts",
       [db |-> IndexDelete(db, row.rowid, row.text), code |-> "OK"])

\* UPDATE fts_chunks_fts SET text = 'g' WHERE rowid = <that of row>
SqlUpdateIndex(row) ==
  Runs("UPDATE", "fts_chunks_fts",
       [db |-> IndexInsert(IndexDelete(db, row.rowid, row.text), row.rowid, GhostText),
        code |-> "OK"])

----------------------------------------------------------------------------
(* The specifications *)

Init ==
  /\ db = EmptyDb
  /\ pc = "idle"
  /\ call = NoCall
  /\ last = Envelope("init", None, <<>>)

Messages == {"Snapshot"}

\* the hash of a commit that is not stored
UnstoredHash == CommitHash(Sha256("none"), <<>>)

Next ==
  \/ \E i \in 1..NumWorkings : Ingest(i)
  \/ \E b \in Branches, e \in {None} \cup DOMAIN db.commits, m \in Messages :
       CommitIndex(b, e, m)
  \/ \E r \in {HEAD, MAIN, DEV} \cup DOMAIN db.commits, f \in BOOLEAN :
       BuildFtsTreeCall(r, f)
  \/ \E t \in {HEAD} \cup DOMAIN db.commits, u \in {None, MAIN} :
       CheckoutIndex(t, u, "commit")
  \/ \E k \in {<<>>, <<HEAD>>, <<DEV>>} : GcArtifacts("commit", k, <<>>)
  \/ BuildFtsTreeRow
  \/ BuildFtsTreeRegister
  \/ BuildFtsTreeFinally
  \/ BuildFtsTreeReturn

Spec == Init /\ [][Next]_vars

\* ingestion, commits and builds of HEAD
NextHead ==
  \/ \E i \in 1..NumWorkings : Ingest(i)
  \/ \E m \in Messages : CommitIndex(MAIN, None, m)
  \/ \E f \in BOOLEAN : BuildFtsTreeCall(HEAD, f)
  \/ BuildFtsTreeRow
  \/ BuildFtsTreeRegister
  \/ BuildFtsTreeFinally
  \/ BuildFtsTreeReturn

\* the tools, and statements issued directly on the gate and, once it is
\* open, on the content table
NextGate ==
  \/ NextHead
  \/ \E v \in {0, 1, 2} : SqlSetGate(v)
  \/ \E id \in {1, 2}, e \in {0, 1} : SqlInsertMaintenance(id, e)
  \/ SqlDeleteMaintenance
  \/ \E tc \in db.tree_chunks : SqlInsertChunk(tc)
  \/ \E row \in db.fts_chunks : SqlDeleteChunk(row)

SpecGate == Init /\ [][NextGate]_vars

\* the tools, and statements issued directly on the content table and on the
\* index while nothing else touches the gate
NextIndex ==
  \/ NextHead
  \/ \E tc \in db.tree_chunks : SqlInsertChunk(tc)
  \/ \E row \in db.fts_chunks : SqlDeleteChunk(row)
  \/ \E row \in db.fts_chunks : SqlUpdateChunk(row)
  \/ \E rowid \in 1..MaxGhostRowid : SqlInsertIndex(rowid)
  \/ \E row \in db.fts_chunks : SqlDeleteIndex(row)
  \/ \E row \in db.fts_chunks : SqlUpdateIndex(row)

SpecIndex == Init /\ [][NextIndex]_vars

GitMessages == {"Snapshot", "Other"}

\* the versioning layer alone: ingestion, commits under two messages,
\* checkouts that may move the branch, dry runs
NextGit ==
  \/ \E i \in 1..NumGitWorkings : Ingest(i)
  \/ \E m \in GitMessages : CommitIndex(MAIN, None, m)
  \/ \E t \in DOMAIN db.commits, u \in {None, MAIN} : CheckoutIndex(t, u, "commit")
  \/ CheckoutIndex(HEAD, None, "dry_run")
  \/ \E t \in {DEV, UnstoredHash}, mode \in {"dry_run", "commit"} :
       CheckoutIndex(t, MAIN, mode)

SpecGit == Init /\ [][NextGit]_vars

\* the refs alone: commits on two branches, checkouts of every kind of
\* target that may move a branch, and the startup commit
NextRefs ==
  \/ \E i \in 1..NumArtifactWorkings : Ingest(i)
  \/ \E b \in {MAIN, DEV}, e \in {None, UnstoredHash} \cup DOMAIN db.commits :
       CommitIndex(b, e, "Snapshot")
  \/ \E t \in {HEAD, MAIN, DEV, UnstoredHash} \cup DOMAIN db.commits,
        u \in {None, MAIN, DEV} : CheckoutIndex(t, u, "commit")
  \/ IndexSystemTools

SpecRefs == Init /\ [][NextRefs]_vars

GcKeepRefs == {<<>>, <<HEAD>>}
GcKinds == {<<>>, <<EMB_KIND>>}

\* the artifact registry: commits, checkouts that move HEAD back, the two
\* build tools on HEAD, and the collector in both modes
NextArtifacts ==
  \/ \E i \in 1..NumArtifactWorkings : Ingest(i)
  \/ \E m \in Messages : CommitIndex(MAIN, None, m)
  \/ \E t \in DOMAIN db.commits : CheckoutIndex(t, None, "commit")
  \/ \E f \in BOOLEAN : BuildFtsTreeCall(HEAD, f)
  \/ BuildFtsTreeRow
  \/ BuildFtsTreeRegister
  \/ BuildFtsTreeFinally
  \/ BuildFtsTreeReturn
  \/ \E dimensions \in {NULL} \cup 1..MaxDimensions :
       BuildEmbeddings(HEAD, LOCAL_PROVIDER, dimensions, DefaultBatch)
  \/ \E k \in GcKeepRefs, kinds \in GcKinds : GcArtifacts("commit", k, kinds)
  \/ \E k \in GcKeepRefs, kinds \in GcKinds : GcArtifacts("dry_run", k, kinds)

SpecArtifacts == Init /\ [][NextArtifacts]_vars

GcNamedRefs == {<<DEV>>, <<HEAD>>, <<DEV, HEAD>>}

\* the collector under keep_refs that name refs, some of which do not
\* resolve, after the two build tools
NextKeep ==
  \/ \E i \in 1..NumArtifactWorkings : Ingest(i)
  \/ CommitIndex(MAIN, None, "Snapshot")
  \/ \E t \in DOMAIN db.commits : CheckoutIndex(t, None, "commit")
  \/ BuildFtsTreeCall(HEAD, FALSE)
  \/ BuildFtsTreeRow
  \/ BuildFtsTreeRegister
  \/ BuildFtsTreeFinally
  \/ BuildFtsTreeReturn
  \/ BuildEmbeddings(HEAD, LOCAL_PROVIDER, NULL, DefaultBatch)
  \/ \E k \in GcNamedRefs, kinds \in GcKinds : GcArtifacts("commit", k, kinds)

SpecKeep == Init /\ [][NextKeep]_vars

\* every tool that writes the store, with commits under two messages
NextStore ==
  \/ \E i \in 1..NumArtifactWorkings : Ingest(i)
  \/ \E m \in GitMessages : CommitIndex(MAIN, None, m)
  \/ \E t \in DOMAIN db.commits : CheckoutIndex(t, MAIN, "commit")
  \/ BuildFtsTreeCall(HEAD, TRUE)
  \/ BuildFtsTreeRow
  \/ BuildFtsTreeRegister
  \/ BuildFtsTreeFinally
  \/ BuildFtsTreeReturn
  \/ BuildEmbeddings(HEAD, LOCAL_PROVIDER, NULL, DefaultBatch)
  \/ GcArtifacts("commit", <<HEAD>>, <<>>)

SpecStore == Init /\ [][NextStore]_vars

\* the task bodies, reference times and keys submitted to create_task
RunAts == {None, Datetime(MaxTime, FALSE)}
ReferenceTimes == {None, Datetime(0, FALSE)}
Tasks ==
  {[title |-> <<" ", "t">>, action |-> action, payload |-> [n |-> 1],
    schedule |-> [run_at |-> run_at, interval_seconds |-> interval_seconds]] :
     action \in {<<"R">>, <<"s", " ">>}, run_at \in RunAts,
     interval_seconds \in {NULL, MaxTime}}
Keys == {"", "k1", "k2"}

NextTasks ==
  \E task \in Tasks, mode \in {"dry_run", "commit"}, reference_time \in ReferenceTimes,
     idempotency_key \in Keys : CreateTask(task, mode, reference_time, idempotency_key)

SpecTasks == Init /\ [][NextTasks]_vars

\* create_task among the other tools that write the store
NextCore ==
  \/ \E task \in {t \in Tasks : t.action = <<"R">>}, mode \in {"dry_run", "commit"},
        reference_time \in ReferenceTimes, idempotency_key \in Keys :
       CreateTask(task, mode, reference_time, idempotency_key)
  \/ Ingest(1)
  \/ CommitIndex(MAIN, None, "Snapshot")
  \/ CheckoutIndex(HEAD, None, "commit")
  \/ BuildEmbeddings(HEAD, LOCAL_PROVIDER, NULL, DefaultBatch)
  \/ GcArtifacts("commit", <<DEV>>, <<>>)

SpecCore == Init /\ [][NextCore]_vars

REMOTE_PROVIDER == "openai:text-embedding-3-small"

\* a build of embeddings with a remote provider, and the tools that may run
\* while it waits
NextSuspend ==
  \/ \E i \in 1..NumArtifactWorkings : Ingest(i)
  \/ CommitIndex(MAIN, None, "Snapshot")
  \/ \E t \in DOMAIN db.commits : CheckoutIndex(t, None, "commit")
  \/ GcArtifacts("commit", <<HEAD>>, <<>>)
  \/ \E ref \in {HEAD} \cup DOMAIN db.commits, batch_size \in {1, DefaultBatch} :
       BuildEmbeddingsCall(ref, REMOTE_PROVIDER, NULL, batch_size)
  \/ \E len \in 1..MaxDimensions : BuildEmbeddingsAnswer(len)

SpecSuspend == Init /\ [][NextSuspend]_vars

\* the options tools hand to buildEnvelope: with and without a request id,
\* with and without provenance and warnings
EnvelopeOptions ==
  LET base == {[tool_name |-> "gc_artifacts", tool_version |-> "1.0.0",
                input |-> [mode |-> mode], result |-> result] :
                 mode \in {"dry_run", "commit"},
                 result \in {None, [mode |-> "dry_run"]}}
      noted == {[tool_name |-> o.tool_name, tool_version |-> o.tool_version,
                 input |-> o.input, result |-> o.result,
                 provenance |-> <<[source_type |-> "db", source_id |-> "index_artifacts"]>>,
                 warnings |-> <<[code |-> "WARN_NO_COMMITS"]>>] : o \in base}
      named == {[tool_name |-> o.tool_name, tool_version |-> o.tool_version,
                 input |-> o.input, result |-> o.result, request_id |-> "r1"] : o \in base}
  IN  base \cup noted \cup named

NextEnvelope ==
  \/ \E opts \in EnvelopeOptions, uuid \in {"u1"}, now \in 0..MaxTime :
       BuildEnvelopeCall(opts, uuid, now)
  \/ \E written \in BOOLEAN : AuditWrite(written)

SpecEnvelope == Init /\ [][NextEnvelope]_vars

\* what a caller may name: a ref that exists, a ref that does not, a stored
\* commit, or the hash of a commit that is not stored (which is also a name
\* a branch may be given)
QueryTargets == {HEAD, MAIN, DEV, UnstoredHash} \cup DOMAIN db.commits

\* the index_version a caller of retrieve may ask for: none, the empty
\* string, HEAD's commit, the hash of the working tree, another hash
RequestedVersions ==
  {None, RefName(""), getRef(db, HEAD), createTreeFromCurrentState(db).treeHash,
   UnstoredHash}

\* the tools that read the history, on a store that ingests and commits
NextQuery ==
  \/ \E i \in 1..NumArtifactWorkings : Ingest(i)
  \/ \E branch \in {MAIN, UnstoredHash} : CommitIndex(branch, None, "Snapshot")
  \/ \E ref \in QueryTargets, limit \in 1..MaxLimit : LogIndex(ref, limit)
  \/ \E from_ref \in {DEV} \cup DOMAIN db.commits, to_ref \in {HEAD} \cup DOMAIN db.commits :
       DiffIndex(from_ref, to_ref)
  \/ \E k \in 1..MaxLimit, index_version \in RequestedVersions :
       Retrieve("b", k, index_version)

SpecQuery == Init /\ [][NextQuery]_vars

\* the embeddings of HEAD's tree, built with the local provider or with a
\* remote one, in one batch or chunk by chunk
NextEmbeddings ==
  \/ \E i \in {1, 4} : Ingest(i)
  \/ CommitIndex(MAIN, None, "Snapshot")
  \/ \E dimensions \in {NULL} \cup 1..MaxDimensions :
       BuildEmbeddings(HEAD, LOCAL_PROVIDER, dimensions, DefaultBatch)
  \/ \E batch_size \in {1, DefaultBatch} :
       BuildEmbeddings(HEAD, "openai:text-embedding-3-small", NULL, batch_size)
  \/ \E alpha \in {0, 1}, vector_k \in {1, DefaultCandidates} :
       RetrieveWithEmbeddings("b", MaxLimit, HEAD, NULL, alpha, DefaultCandidates, vector_k)

SpecEmbeddings == Init /\ [][NextEmbeddings]_vars

\* The collector's walk on any stored commit graph.  commit_index stores
\* commits of at most one parent, but parents_json is a list and the walk
\* reads all of it: the graphs are drawn here, with merges, cycles, a parent
\* that is not stored, two commits of one tree, and refs that are absent.
GraphCommits == {Sha256("g1"), Sha256("g2"), Sha256("g3")}
GraphParents ==
  {<<>>, <<Sha256("g1")>>, <<Sha256("g2")>>, <<Sha256("g2"), Sha256("g3")>>,
   <<Sha256("g3"), Sha256("g1")>>, <<Sha256("g4")>>}
GraphTree(c) == IF c = Sha256("g2") THEN Sha256("t2") ELSE Sha256("t1")
GraphRefs ==
  {<<>>} \cup {(HEAD :> h) : h \in {Sha256("g1"), Sha256("g3")}}
         \cup {(MAIN :> Sha256("g2"))}
         \cup {(HEAD :> h) @@ (MAIN :> Sha256("g2")) : h \in {Sha256("g1"), Sha256("g3")}}
GraphKeepRefs == {<<>>, <<HEAD>>, <<HEAD, DEV>>, <<MAIN, HEAD>>}

InitGraph ==
  /\ \E parents \in [GraphCommits -> GraphParents], refs \in GraphRefs :
       db = [EmptyDb EXCEPT
               !.commits = [c \in GraphCommits |->
                              [tree_hash |-> GraphTree(c),
                               parents_json |-> canonicalize(JsonArray(parents[c])),
                               message |-> "Snapshot", created_at |-> EPOCH]],
               !.refs = refs]
  /\ pc = "idle"
  /\ call = NoCall
  /\ last = Envelope("init", None, <<>>)

NextGraph == \E k \in GraphKeepRefs : GcArtifacts("dry_run", k, <<>>)

SpecGraph == InitGraph /\ [][NextGraph]_vars

----------------------------------------------------------------------------
(* The claims *)

BuildReturned == pc = "idle" /\ last.tool_name = "build_fts_tree"

\* C1: whenever a call of build_fts_tree has returned (success, skipped or
\* any error, a failure inside the rebuild body included) the gate is closed,
\* and the gate is open only while the rebuild body executes.
C1_GateClosedOutsideBody ==
  /\ BuildReturned => GateEnabled(db) = 0
  /\ GateEnabled(db) = 1 => pc \in {"rows", "finally"}

\* a build has failed inside the rebuild body and has returned
C1_Witness ==
  /\ BuildReturned
  /\ last.errors \in {<<"ERR_DATA_CORRUPTION">>, <<"ERR_ROWID_COLLISION">>}
  /\ GateEnabled(db) = 0

\* the step is a statement issued directly on one of the tables
DirectWrite(tables) ==
  /\ last'.tool_name = "sql"
  /\ last'.table \in tables

\* C2: while the gate is closed, every INSERT or DELETE on fts_chunks and
\* every INSERT, UPDATE or DELETE on fts_chunks_fts aborts and leaves both
\* tables as they were.
C2_ClosedGateBlocksWrites ==
  [][(GateEnabled(db) = 0 /\ DirectWrite({"fts_chunks", "fts_chunks_fts"}))
       => /\ last'.code # "OK"
          /\ db'.fts_chunks = db.fts_chunks
          /\ db'.fts_chunks_fts = db.fts_chunks_fts]_vars

\* C3: the fts_maintenance singleton is immutable: a DELETE on it always
\* aborts, an INSERT aborts whenever the row id=1 exists, and in every
\* reachable state the table holds exactly the row id=1, enabled 0 or 1.
C3_SingletonImmutable ==
  /\ [](\E e \in {0, 1} : db.fts_maintenance = {[id |-> 1, enabled |-> e]})
  /\ [][(DirectWrite({"fts_maintenance"}) /\ last'.verb \in {"DELETE", "INSERT"})
          => /\ last'.code = "SQLITE_CONSTRAINT_TRIGGER"
             /\ db'.fts_maintenance = db.fts_maintenance]_vars

\* a DELETE on the open gate's row has just aborted
C3_Witness ==
  /\ pc = "idle"
  /\ last.tool_name = "sql"
  /\ last.table = "fts_maintenance"
  /\ last.verb = "DELETE"
  /\ last.code = "SQLITE_CONSTRAINT_TRIGGER"
  /\ db.fts_maintenance = {[id |-> 1, enabled |-> 1]}

IndexedRowids(d) == {e.rowid : e \in d.fts_chunks_fts}

ChunkRowids(d) == {x.rowid : x \in d.fts_chunks}

\* C4: in every state the tools reach, the body of a rebuild included, the
\* rowids indexed in fts_chunks_fts are the rowids of fts_chunks: no ghost
\* index row and no missing one.
C4_IndexMirrorsChunks == IndexedRowids(db) = ChunkRowids(db)

\* inside a forced rebuild: the tree's old rows are deleted and a proper part
\* of them is inserted again, next to the rows of another tree
C4_Witness ==
  /\ pc = "rows"
  /\ call.force_rebuild
  /\ \E x \in call.snapshot.fts_chunks : x.tree_hash = call.treeHash
  /\ \E x \in db.fts_chunks : x.tree_hash = call.treeHash
  /\ \E x \in db.fts_chunks : x.tree_hash # call.treeHash
  /\ db.fts_chunks # call.snapshot.fts_chunks
  /\ IndexedRowids(db) # {}

FtsArtifacts(d) == {a \in d.index_artifacts : a.kind = FTS_KIND}

CountFtsChunks(d, T) == Cardinality({x \in d.fts_chunks : x.tree_hash = T})

CountTreeChunks(d, T) == Cardinality({tc \in d.tree_chunks : tc.tree_hash = T})

\* C5: after any sequence of commit_index, checkout_index, build_fts_tree and
\* gc_artifacts, every tree that has an FTS artifact has as many fts_chunks
\* rows as tree_chunks rows.
C5_ArtifactMeansComplete ==
  pc = "idle" =>
    \A a \in FtsArtifacts(db) :
      CountFtsChunks(db, a.tree_hash) = CountTreeChunks(db, a.tree_hash)

\* gc_artifacts has just deleted the artifact of one built tree and kept
\* that of another, whose two rows are all there
C5_Witness ==
  /\ pc = "idle"
  /\ last.tool_name = "gc_artifacts"
  /\ \E a \in FtsArtifacts(db) :
        CountFtsChunks(db, a.tree_hash) = 2 /\ CountTreeChunks(db, a.tree_hash) = 2
  /\ \E x \in db.fts_chunks : \A a \in FtsArtifacts(db) : a.tree_hash # x.tree_hash

\* the last tool call was a build_fts_tree that built or skipped the tree of ref
BuiltOrSkipped(ref) ==
  /\ BuildReturned
  /\ last.errors = <<>>
  /\ last.result.tree_hash = getTreeHashForCommit(db, resolveTarget(db, ref))

\* C6: a build_fts_tree without force_rebuild that directly follows a build
\* of the same ref returns status "skipped" with the artifact_id of the first
\* call and leaves fts_chunks, index_artifacts and artifact_refs unchanged.
C6_SecondBuildSkips ==
  [][\A ref \in {HEAD, MAIN, DEV} \cup DOMAIN db.commits :
       (BuiltOrSkipped(ref) /\ BuildFtsTreeCall(ref, FALSE))
         => /\ last'.errors = <<>>
            /\ last'.result.status = "skipped"
            /\ last'.result.artifact_id = last.result.artifact_id
            /\ db'.fts_chunks = db.fts_chunks
            /\ db'.index_artifacts = db.index_artifacts
            /\ db'.artifact_refs = db.artifact_refs]_vars

\* the second call has returned "skipped" for the artifact that HEAD's build
\* registered
C6_Witness ==
  /\ BuildReturned
  /\ last.errors = <<>>
  /\ last.result.status = "skipped"
  /\ \E ar \in db.artifact_refs :
        /\ ar.ref_type = "ref" /\ ar.ref_name = HEAD
        /\ ar.artifact_id = last.result.artifact_id
  /\ last.result.tree_hash = getTreeHashForCommit(db, resolveTarget(db, HEAD))
  /\ TreeRows(db, last.result.tree_hash) # {}

HeadTree(d) == getTreeHashForCommit(d, resolveTarget(d, HEAD))

\* the (chunk_id, content_hash) pairs of a tree's rows in a table
Pairs(rows, T) == {<<x.chunk_id, x.content_hash>> : x \in {y \in rows : y.tree_hash = T}}

\* HEAD's tree has an FTS artifact, and its rows in fts_chunks are no longer
\* those the artifact was built from, which are the rows of tree_chunks
Drifted(d) ==
  /\ \E a \in FtsArtifacts(d) : a.tree_hash = HeadTree(d)
  /\ Pairs(d.fts_chunks, HeadTree(d)) # Pairs(d.tree_chunks, HeadTree(d))

\* C7: when a tree has an FTS artifact and its rows in fts_chunks differ from
\* those the artifact was built from, build_fts_tree without force_rebuild
\* returns ERR_ARTIFACT_DRIFT with result null and modifies nothing.
C7_DriftIsReported ==
  [][(Drifted(db) /\ BuildFtsTreeCall(HEAD, FALSE))
       => /\ last' = [tool_name |-> "build_fts_tree", result |-> None,
                      errors |-> <<"ERR_ARTIFACT_DRIFT">>]
          /\ db' = db
          /\ pc' = "idle"]_vars

\* a row of a built tree is gone and the build of HEAD has reported the drift
C7_Witness ==
  /\ BuildReturned
  /\ last.errors = <<"ERR_ARTIFACT_DRIFT">>
  /\ last.result = None
  /\ Drifted(db)
  /\ Pairs(db.fts_chunks, HeadTree(db)) # {}
  /\ GateEnabled(db) = 0

BuildSucceeded ==
  BuildReturned /\ last.errors = <<>> /\ last.result.status = "success"

\* what a tree alone determines: its frozen chunks in chunk_id order, their
\* digest, and the digest of the manifest over them
TreePayload(T) ==
  SortSet({[chunk_id |-> tc.chunk_id, content_hash |-> tc.content_hash] :
             tc \in {x \in db.tree_chunks : x.tree_hash = T}}, ByChunkId)

TreePayloadHash(T) == Sha256([json |-> [array |-> TreePayload(T)]])

TreeArtifactId(T) ==
  Sha256([json |->
    [manifest |-> [kind |-> "fts", tokenizer |-> "unicode61", tree_hash |-> T,
                   payload_hash |-> TreePayloadHash(T),
                   chunk_count |-> Len(TreePayload(T)),
                   rowid_strategy |-> "sha256:u63:collision-check:v1",
                   fts_sync |-> "triggers:maintenance-gate:v1"],
     payload_hash |-> TreePayloadHash(T)]])

\* C8: every successful build_fts_tree of a tree returns the same artifact_id
\* and the same payload_hash: both are functions of the tree alone, whatever
\* the ref or commit the build went through, forced or not, before or after
\* a garbage collection.
C8_ArtifactIsFunctionOfTree ==
  BuildSucceeded =>
    /\ last.result.artifact_id = TreeArtifactId(last.result.tree_hash)
    /\ last.result.payload_hash = TreePayloadHash(last.result.tree_hash)

\* a tree is built again through a second commit that has the same tree:
\* the first commit still holds its reference to the artifact
C8_Witness ==
  /\ BuildSucceeded
  /\ \E ar \in db.artifact_refs :
        /\ ar.ref_type = "commit"
        /\ ar.ref_name # last.result.resolved_commit
        /\ getTreeHashForCommit(db, ar.ref_name) = last.result.tree_hash
        /\ ar.artifact_id = last.result.artifact_id

RolledBackTables == {"fts_chunks", "fts_chunks_fts", "index_artifacts", "artifact_refs"}

\* C9: when the rebuild body of build_fts_tree fails, the transaction is
\* rolled back: at the return fts_chunks, fts_chunks_fts, index_artifacts and
\* artifact_refs are what they were when the tool was called, the rows a
\* force_rebuild had deleted included, and the envelope carries the error.
C9_FailureRollsBack ==
  [][/\ (pc = "idle" /\ pc' # "idle")
          => \A t \in RolledBackTables : call'.snapshot[t] = db[t]
     /\ (pc # "idle" /\ pc' # "idle") => call'.snapshot = call.snapshot
     /\ (pc = "end" /\ call.error # "")
          => /\ \A t \in RolledBackTables : db'[t] = call.snapshot[t]
             /\ last' = [tool_name |-> "build_fts_tree", result |-> None,
                         errors |-> <<call.error>>]
             /\ pc' = "idle"]_vars

\* a forced rebuild of HEAD's tree has failed on a corrupt chunk after it
\* had deleted the tree's rows and inserted others: the old rows are back
C9_Witness ==
  /\ BuildReturned
  /\ last.errors = <<"ERR_DATA_CORRUPTION">>
  /\ Pairs(db.fts_chunks, HeadTree(db)) # {}
  /\ Pairs(db.fts_chunks, HeadTree(db)) # Pairs(db.tree_chunks, HeadTree(db))
  /\ IndexedRowids(db) = ChunkRowids(db)

\* C10: build_fts_tree enforces that the gate is closed on entry: a build
\* that found the gate open (enabled = 1) when it was called does not write
\* fts_chunks.
C10_OpenGateStopsBuild ==
  (pc # "idle" /\ GateEnabled(call.snapshot) = 1)
    => db.fts_chunks = call.snapshot.fts_chunks

----------------------------------------------------------------------------
\* commit_index has returned "committed"
Committed ==
  /\ last.tool_name = "commit_index"
  /\ last.errors = <<>>

\* C11: the hash of a commit is the digest of its tree hash and its ordered
\* parents and of nothing else: every stored commit sits under the digest of
\* its own tree_hash and parents whatever its message, two stored commits
\* never share tree and parents, the commit that commit_index reports is
\* stored with the tree and the parents it reports, and every stored commit
\* has created_at = 1970-01-01T00:00:00.000Z.
C11_CommitIdentity ==
  /\ \A c \in DOMAIN db.commits :
        /\ c = Sha256([json |-> [tree_hash |-> db.commits[c].tree_hash,
                                 parents |-> JsonParse(db.commits[c].parents_json).array]])
        /\ db.commits[c].created_at = "1970-01-01T00:00:00.000Z"
  /\ \A c1, c2 \in DOMAIN db.commits :
        c1 # c2 => \/ db.commits[c1].tree_hash # db.commits[c2].tree_hash
                   \/ db.commits[c1].parents_json # db.commits[c2].parents_json
  /\ Committed =>
        /\ last.result.commit_hash \in DOMAIN db.commits
        /\ db.commits[last.result.commit_hash].tree_hash = last.result.tree_hash
        /\ JsonParse(db.commits[last.result.commit_hash].parents_json).array
             = last.result.parents

\* a commit with parents was submitted again under a message other than the
\* stored one, and came back under the same hash, beside a commit of another
\* identity
C11_Witness ==
  /\ Committed
  /\ last.result.parents # <<>>
  /\ \E m \in GitMessages :
        /\ m # db.commits[last.result.commit_hash].message
        /\ last.inputs_hash = computeHash([branch |-> MAIN, expected_parent |-> None,
                                           message |-> m])
  /\ Cardinality(DOMAIN db.commits) = 2

\* C12: blobs, trees and commits are write-once: whatever step is taken
\* (commit_index, also of a commit already stored under another message,
\* checkout_index, a step of a build tool, gc_artifacts), every row stored
\* before it is stored after it with the same content.
C12_WriteOnce ==
  [][/\ \A h \in DOMAIN db.blobs :
          h \in DOMAIN db'.blobs /\ db'.blobs[h] = db.blobs[h]
     /\ \A t \in DOMAIN db.trees :
          t \in DOMAIN db'.trees /\ db'.trees[t] = db.trees[t]
     /\ \A c \in DOMAIN db.commits :
          c \in DOMAIN db'.commits /\ db'.commits[c] = db.commits[c]]_vars

\* a commit stored under one message was submitted again under the other,
\* in a store that holds artifacts of both kinds
C12_Witness ==
  /\ Committed
  /\ \E m \in GitMessages :
        /\ m # db.commits[last.result.commit_hash].message
        /\ last.inputs_hash = computeHash([branch |-> MAIN, expected_parent |-> None,
                                           message |-> m])
  /\ {a.kind : a \in db.index_artifacts} = {FTS_KIND, EMB_KIND}
  /\ db.blobs # <<>>

\* the documents without their updated_at
DocumentsContent(d) ==
  [x \in DOMAIN d.documents |->
     [content_hash |-> d.documents[x].content_hash, title |-> d.documents[x].title]]

\* C13: checkout round trip: once commit_index has recorded the working
\* state, a commit-mode checkout_index of that commit leaves the working
\* documents (their updated_at apart) and chunks as they were when committed,
\* and create_tree_from_current_state gives the committed tree_hash.
C13_CheckoutRoundTrip ==
  [][(/\ Committed
      /\ last'.tool_name = "checkout_index"
      /\ last'.errors = <<>>
      /\ last'.result.mode = "commit"
      /\ last'.result.target_commit = last.result.commit_hash)
     => /\ db'.chunks = db.chunks
        /\ DocumentsContent(db') = DocumentsContent(db)
        /\ createTreeFromCurrentState(db').treeHash = last.result.tree_hash]_vars

\* the half of C13 that holds: the tree hash of the working state after the
\* checkout is the committed one
C13_TreeHashRestored ==
  [][(/\ last'.tool_name = "checkout_index"
      /\ last'.errors = <<>>
      /\ last'.result.mode = "commit")
     => createTreeFromCurrentState(db').treeHash = last'.result.tree_hash]_vars

\* checkout_index has returned from a commit-mode checkout
CheckedOut(envelope) ==
  /\ envelope.tool_name = "checkout_index"
  /\ envelope.errors = <<>>
  /\ envelope.result.mode = "commit"

\* the stored blob of document docId in the tree treeHash
BlobOfTreeDoc(d, treeHash, docId) ==
  d.blobs[(CHOOSE x \in d.tree_docs : x.tree_hash = treeHash /\ x.doc_id = docId).blob_hash]

----------------------------------------------------------------------------
\* the commits from which cs descend, cs included
RECURSIVE Ancestors(_, _)
Ancestors(d, cs) ==
  LET more == cs \cup {p \in DOMAIN d.commits :
                         \E c \in cs \cap DOMAIN d.commits :
                           \E i \in DOMAIN d.commits[c].parents_json.json.array :
                             d.commits[c].parents_json.json.array[i] = p}
  IN  IF more = cs THEN cs ELSE Ancestors(d, more)

\* the trees of the commits reachable from the kept refs (from every ref when
\* no keep_refs is given)
KeptTrees(d, keep_refs) ==
  LET names == IF keep_refs = <<>> THEN DOMAIN d.refs
               ELSE {keep_refs[i] : i \in DOMAIN keep_refs} \cap DOMAIN d.refs
  IN  {d.commits[c].tree_hash :
         c \in Ancestors(d, {d.refs[r] : r \in names}) \cap DOMAIN d.commits}

GcCommitted ==
  /\ last.tool_name = "gc_artifacts"
  /\ last.result.mode = "commit"

\* C15 as stated: after gc_artifacts in commit mode, whatever keep_refs and
\* kinds, every index_artifacts row and every chunk_embeddings row left has
\* its tree_hash among the trees reachable from the kept refs.
C15_SurvivorsReachable ==
  [][\A k \in GcKeepRefs, kinds \in GcKinds :
       GcArtifacts("commit", k, kinds) =>
         /\ \A a \in db'.index_artifacts : a.tree_hash \in KeptTrees(db, k)
         /\ \A e \in db'.chunk_embeddings : e.tree_hash \in KeptTrees(db, k)]_vars

\* C15, amended: after gc_artifacts in commit mode, every chunk_embeddings row
\* left, and every index_artifacts row left whose kind the kinds filter
\* selects (every row when no kinds are given), has its tree_hash among the
\* trees reachable from the kept refs.
C15_SelectedSurvivorsReachable ==
  [][\A k \in GcKeepRefs, kinds \in GcKinds :
       GcArtifacts("commit", k, kinds) =>
         /\ \A a \in db'.index_artifacts :
              (kinds = <<>> \/ \E i \in DOMAIN kinds : kinds[i] = a.kind)
                => a.tree_hash \in KeptTrees(db, k)
         /\ \A e \in db'.chunk_embeddings : e.tree_hash \in KeptTrees(db, k)]_vars

\* a collection has deleted artifacts and embeddings of an unreachable tree
\* and has left artifacts and embeddings of a reachable one
C15_Witness ==
  /\ GcCommitted
  /\ last.result.deleted.index_artifacts > 0
  /\ last.result.deleted.chunk_embeddings_tree_hashes > 0
  /\ db.index_artifacts # {}
  /\ db.chunk_embeddings # {}

\* C16: gc_artifacts in commit mode deletes only what is unreachable: an
\* index_artifacts row, a chunk_embeddings row, or an artifact_refs row of an
\* artifact, whose tree is the tree of a commit reachable from the kept refs
\* is still there after the run.
C16_ReachableKept ==
  [][\A k \in GcKeepRefs, kinds \in GcKinds :
       GcArtifacts("commit", k, kinds) =>
         /\ \A a \in db.index_artifacts :
              a.tree_hash \in KeptTrees(db, k) => a \in db'.index_artifacts
         /\ \A e \in db.chunk_embeddings :
              e.tree_hash \in KeptTrees(db, k) => e \in db'.chunk_embeddings
         /\ \A r \in db.artifact_refs :
              (\E a \in db.index_artifacts :
                 a.artifact_id = r.artifact_id /\ a.tree_hash \in KeptTrees(db, k))
                => r \in db'.artifact_refs]_vars

\* a collection has deleted artifact_refs rows and has left the artifact,
\* the refs and the embeddings of a tree that the kept HEAD reaches
C16_Witness ==
  /\ GcCommitted
  /\ last.result.deleted.artifact_refs > 0
  /\ \E r \in db.artifact_refs, a \in db.index_artifacts, e \in db.chunk_embeddings :
        /\ a.artifact_id = r.artifact_id
        /\ a.tree_hash \in KeptTrees(db, <<HEAD>>)
        /\ e.tree_hash = a.tree_hash

\* C17: gc_artifacts in dry_run mode leaves every table as it was and
\* returns the plan: the reachable refs, commits and trees, and deletion
\* lists that are exactly the rows a commit-mode run from the same state
\* removes.
C17_DryRunPlans ==
  [][\A k \in GcKeepRefs, kinds \in GcKinds :
       GcArtifacts("dry_run", k, kinds) =>
         LET plan == last'.result.plan
             after == GcDelete(db, GcPlan(db, k, kinds))
         IN  /\ db' = db
             /\ last'.result.mode = "dry_run"
             /\ plan.reachable.trees = KeptTrees(db, k)
             /\ {r.commit_hash : r \in plan.reachable.refs} \subseteq plan.reachable.commits
             /\ plan.delete.index_artifacts =
                  {[artifact_id |-> a.artifact_id, tree_hash |-> a.tree_hash,
                    kind |-> a.kind] : a \in db.index_artifacts \ after.index_artifacts}
             /\ plan.delete.artifact_refs =
                  {[kind |-> r.kind, artifact_id |-> r.artifact_id] :
                     r \in db.artifact_refs \ after.artifact_refs}
             /\ plan.delete.chunk_embeddings_tree_hashes =
                  {e.tree_hash : e \in db.chunk_embeddings \ after.chunk_embeddings}]_vars

\* a dry run has planned the deletion of artifacts and embeddings, and the
\* rows it lists are still in the tables
C17_Witness ==
  /\ last.tool_name = "gc_artifacts"
  /\ last.result.mode = "dry_run"
  /\ last.result.plan.delete.index_artifacts # {}
  /\ last.result.plan.delete.chunk_embeddings_tree_hashes # {}
  /\ \A a \in last.result.plan.delete.index_artifacts :
        \E x \in db.index_artifacts : x.artifact_id = a.artifact_id
  /\ \A t \in last.result.plan.delete.chunk_embeddings_tree_hashes :
        \E e \in db.chunk_embeddings : e.tree_hash = t

----------------------------------------------------------------------------
\* a commit-mode submission under a key whose task is stored
Resubmission(task, reference_time, key) ==
  /\ [uuidv5 |-> key, namespace |-> TASK_NAMESPACE] \in DOMAIN db.tasks
  /\ CreateTask(task, "commit", reference_time, key)

\* the submission came back idempotent_hit with the stored payload, and the
\* tasks are as they were
HitLeavesTasks(key) ==
  LET id == [uuidv5 |-> key, namespace |-> TASK_NAMESPACE]
  IN  /\ last'.errors = <<>>
      /\ last'.result.status = "idempotent_hit"
      /\ last'.result.task_id = id
      /\ [json |-> last'.result.normalized_task] = db.tasks[id].task_json
      /\ last'.result.created_at = db.tasks[id].created_at
      /\ last'.result.next_run_at = db.tasks[id].next_run_at
      /\ db'.tasks = db.tasks

\* every stored task sits under uuidv5(NAMESPACE, idempotency_key)
TaskIdsFromKeys(d) ==
  \A id \in DOMAIN d.tasks :
    id = [uuidv5 |-> d.tasks[id].idempotency_key, namespace |-> TASK_NAMESPACE]

\* C19 as stated: task_id = uuidv5(NAMESPACE, idempotency_key), and a second
\* commit-mode submission under the same key, whatever its task body, returns
\* idempotent_hit with the stored payload, inserts no row and leaves the
\* stored task_json as it is.
C19_ResubmissionHits ==
  [][/\ TaskIdsFromKeys(db')
     /\ \A task \in Tasks, reference_time \in ReferenceTimes, key \in Keys \ {""} :
          Resubmission(task, reference_time, key) => HitLeavesTasks(key)]_vars

\* C19, amended: task_id = uuidv5(NAMESPACE, idempotency_key); a second
\* commit-mode submission under the same key whose schedule resolves (run_at,
\* or interval_seconds with a reference_time) returns idempotent_hit with the
\* stored payload, whatever its task body; and no second submission, whether
\* it resolves or is refused, inserts a row or changes a stored one.
C19_ResolvedResubmissionHits ==
  [][/\ TaskIdsFromKeys(db')
     /\ \A task \in Tasks, reference_time \in ReferenceTimes, key \in Keys \ {""} :
          Resubmission(task, reference_time, key) =>
            /\ db'.tasks = db.tasks
            /\ NextRunAt(task, reference_time).ok => HitLeavesTasks(key)]_vars

\* a task is stored under k1 and a submission under k1 with another body
\* has come back idempotent_hit with the stored one
C19_Witness ==
  /\ last.tool_name = "create_task"
  /\ last.errors = <<>>
  /\ "status" \in DOMAIN last.result
  /\ last.result.status = "idempotent_hit"
  /\ last.result.task_id = [uuidv5 |-> "k1", namespace |-> TASK_NAMESPACE]
  /\ last.result.normalized_task.action = <<"r">>
  /\ last.result.normalized_task.title = <<"t">>
  /\ last.result.next_run_at = toISOString(MaxTime)
  /\ Cardinality(DOMAIN db.tasks) = 2

----------------------------------------------------------------------------
\* the envelopes kept in the audit log, and the last one built
Envelopes ==
  {db.audit_log[r].envelope_json.json : r \in DOMAIN db.audit_log}
    \cup (IF "outputs_hash" \in DOMAIN last THEN {last} ELSE {})

\* C20: two envelopes built for equal results have equal outputs_hash,
\* whatever their request_id, input, warnings, provenance and timestamp.
C20_EqualResultsEqualHash ==
  \A e1, e2 \in Envelopes :
    e1.result = e2.result => e1.outputs_hash = e2.outputs_hash

\* two envelopes with the same result that differ in request_id, in input,
\* in warnings, in provenance and in timestamp
C20_Witness ==
  \E e1, e2 \in Envelopes :
    /\ e1.result = e2.result
    /\ e1.request_id # e2.request_id
    /\ e1.inputs_hash # e2.inputs_hash
    /\ e1.warnings # e2.warnings
    /\ e1.provenance # e2.provenance
    /\ e1.metrics.timestamp # e2.metrics.timestamp

----------------------------------------------------------------------------
\* the audit row the queued write of an envelope stores
AuditRowOf(envelope) ==
  [tool_name |-> envelope.tool_name, tool_version |-> envelope.tool_version,
   inputs_hash |-> envelope.inputs_hash, outputs_hash |-> envelope.outputs_hash,
   envelope_json |-> [json |-> envelope], created_at |-> envelope.metrics.timestamp]

\* C21: the audit append comes after the envelope is built and cannot lose
\* it: building the envelope returns it and writes nothing; the queued
\* append, whether it succeeds or fails, leaves the returned envelope as it
\* is, and a failed append changes nothing at all besides leaving the queue.
C21_AuditAppendBestEffort ==
  [][/\ Len(Microtasks') > Len(Microtasks) =>
          /\ db' = db
          /\ last' = Microtasks'[Len(Microtasks')]
          /\ "outputs_hash" \in DOMAIN last' /\ "pending" \notin DOMAIN last'
     /\ Len(Microtasks') < Len(Microtasks) =>
          /\ last' = last
          /\ pc' = pc
          /\ \/ db' = db
             \/ db' = [db EXCEPT !.audit_log =
                         Put(@, Head(Microtasks).request_id, AuditRowOf(Head(Microtasks)))]]_vars

\* an envelope was returned, its audit append has run and failed: the
\* envelope is in the caller's hands and the audit log holds no row for it
C21_Witness ==
  /\ "outputs_hash" \in DOMAIN last
  /\ Microtasks = <<>>
  /\ last.request_id \notin DOMAIN db.audit_log
  /\ last.errors = <<>>
  /\ db.audit_log # EmptyDb.audit_log

----------------------------------------------------------------------------
\* C22: an envelope that reports a validation or precondition failure
\* (errors non-empty) carries result null, whatever tool returned it.
C22_ErrorsMeanNullResult ==
  ("errors" \in DOMAIN last /\ last.errors # <<>>) => last.result = None

----------------------------------------------------------------------------
\* the documents a committed tree binds (tree_docs)
DocsOfTree(d, treeHash) == {x \in d.tree_docs : x.tree_hash = treeHash}

\* C24: diff_index(from, to) on two stored commits returns a diff whose
\* added are the doc ids only in the to tree, removed the doc ids only in
\* the from tree, changed the doc ids in both with another content hash,
\* each listed once.
C24_DiffOfCommittedTrees ==
  \A f, t \in DOMAIN db.commits :
    (last.tool_name = "diff_index"
       /\ last.inputs_hash = computeHash([from_ref |-> f, to_ref |-> t]))
    => LET A == DocsOfTree(db, db.commits[f].tree_hash)
           B == DocsOfTree(db, db.commits[t].tree_hash)
           idsA == {x.doc_id : x \in A}
           idsB == {x.doc_id : x \in B}
           once(xs) == Cardinality(Range(xs)) = Len(xs)
       IN  /\ last.result # None
           /\ Range(last.result.diff.added) = idsB \ idsA
           /\ Range(last.result.diff.removed) = idsA \ idsB
           /\ Range(last.result.diff.changed) =
                {x.doc_id : x \in {y \in A : \E z \in B :
                     z.doc_id = y.doc_id /\ z.content_hash # y.content_hash}}
           /\ once(last.result.diff.added) /\ once(last.result.diff.removed)
           /\ once(last.result.diff.changed)

----------------------------------------------------------------------------
\* C26: resolve_target(s) is the commit hash stored under the ref name s
\* when there is such a ref, also when s has the form of a hash; otherwise s
\* itself when s has the form of a hash, stored or not; otherwise null.
\* (log_index returns what resolveTarget gave it as resolved_commit.)
C26_ResolveTarget ==
  last.tool_name = "log_index" =>
    LET s == last.result.ref
    IN  last.result.resolved_commit =
          IF s \in DOMAIN db.refs THEN db.refs[s]
          ELSE IF IsHex64(s) THEN s
          ELSE None

\* a name of the form of a hash that is a ref resolved to the ref's commit
C26_Witness ==
  /\ last.tool_name = "log_index"
  /\ IsHex64(last.result.ref)
  /\ last.result.ref \in DOMAIN db.refs
  /\ last.result.resolved_commit = db.refs[last.result.ref]
  /\ last.result.resolved_commit # last.result.ref
  /\ last.result.count > 0

\* a hash that is neither a ref nor a stored commit resolved to itself
C26_WitnessUnstored ==
  /\ last.tool_name = "log_index"
  /\ last.result.ref \notin DOMAIN db.refs \cup DOMAIN db.commits
  /\ last.result.resolved_commit = last.result.ref
  /\ db.commits # <<>>

----------------------------------------------------------------------------
\* C27: retrieve warns WARN_NO_COMMITS exactly when HEAD is absent,
\* WARN_WORKING_TREE_DIRTY exactly when HEAD exists and the hash of the
\* working tree differs from the tree of HEAD, and WARN_VERSION_MISMATCH
\* exactly when an index_version is requested (given and not empty) and
\* differs from the effective version, which is HEAD's commit when the
\* working tree is clean and the hash of the working tree otherwise.
C27_RetrieveWarnings ==
  \A k \in 1..MaxLimit, index_version \in RequestedVersions :
    (last.tool_name = "retrieve"
       /\ last.inputs_hash = computeHash([query |-> "b", k |-> k,
                                          index_version |-> index_version]))
    => LET working == createTreeFromCurrentState(db).treeHash
           hasHead == HEAD \in DOMAIN db.refs
           clean == hasHead /\ db.refs[HEAD] \in DOMAIN db.commits
                            /\ db.commits[db.refs[HEAD]].tree_hash = working
           effective == IF clean THEN db.refs[HEAD] ELSE working
           requested == index_version # None /\ index_version # RefName("")
           W == Range(last.warnings)
       IN  /\ "WARN_NO_COMMITS" \in W <=> ~hasHead
           /\ "WARN_WORKING_TREE_DIRTY" \in W <=> (hasHead /\ ~clean)
           /\ "WARN_VERSION_MISMATCH" \in W <=> (requested /\ index_version # effective)
           /\ last.result.index_version = effective

\* retrieve on a dirty working tree, asked for HEAD's commit: it serves the
\* working tree and warns of the dirty tree and of the version
C27_Witness ==
  /\ last.tool_name = "retrieve"
  /\ HEAD \in DOMAIN db.refs
  /\ last.warnings = <<"WARN_WORKING_TREE_DIRTY", "WARN_VERSION_MISMATCH">>
  /\ last.result.index_version = createTreeFromCurrentState(db).treeHash
  /\ last.inputs_hash = computeHash([query |-> "b", k |-> 1,
                                     index_version |-> db.refs[HEAD]])
  /\ Len(last.result.chunks) = 1

----------------------------------------------------------------------------
\* toFloat32Blob: four bytes for each number of the vector
BlobLen(embedding) == 4 * embedding.length

\* C25: the chunk_embeddings rows of one tree and model have the same dims
\* and a blob of dims * 4 bytes each (a build whose vectors differ in length
\* is refused and writes nothing).
C25_UniformDims ==
  \A x, y \in db.chunk_embeddings :
    (x.tree_hash = y.tree_hash /\ x.model_id = y.model_id)
      => /\ x.dims = y.dims
         /\ BlobLen(x.embedding) = x.dims * 4
         /\ BlobLen(x.embedding) = BlobLen(y.embedding)

\* what does hold: the rows the local provider's builds leave are uniform
C25_LocalUniformDims ==
  \A x, y \in {r \in db.chunk_embeddings : r.model_id = LOCAL_PROVIDER} :
    x.tree_hash = y.tree_hash
      => /\ x.dims = y.dims
         /\ BlobLen(x.embedding) = x.dims * 4
         /\ BlobLen(x.embedding) = BlobLen(y.embedding)

----------------------------------------------------------------------------
\* the chunks retrieve_with_embeddings returned, when alpha was a
RetrievedWith(a) ==
  IF last.tool_name = "retrieve_with_embeddings" /\ last.errors = <<>>
       /\ last.result.alpha = a
  THEN last.result.chunks ELSE <<>>

\* C23: with alpha = 1 the returned chunks are in pure BM25 order, best
\* BM25 first (bm25() of SQLite: the lower the better) and ties by chunk_id
\* ascending; with alpha = 0 they are in pure cosine order, highest cosine
\* first and ties by chunk_id ascending.
C23_PureOrders ==
  /\ \A i, j \in DOMAIN RetrievedWith(1) :
       LET x == RetrievedWith(1)[i]
           y == RetrievedWith(1)[j]
       IN  (i < j /\ x.signals.bm25 # None /\ y.signals.bm25 # None)
             => \/ x.signals.bm25.num < y.signals.bm25.num
                \/ x.signals.bm25.num = y.signals.bm25.num
                     /\ ChunkRank(x.chunk_id) < ChunkRank(y.chunk_id)
  /\ \A i, j \in DOMAIN RetrievedWith(0) :
       LET x == RetrievedWith(0)[i]
           y == RetrievedWith(0)[j]
       IN  (i < j /\ x.signals.cos # None /\ y.signals.cos # None)
             => \/ x.signals.cos.num > y.signals.cos.num
                \/ x.signals.cos.num = y.signals.cos.num
                     /\ ChunkRank(x.chunk_id) < ChunkRank(y.chunk_id)

\* what does hold: the cosine half of it
C23_CosineOrder ==
  \A i, j \in DOMAIN RetrievedWith(0) :
    LET x == RetrievedWith(0)[i]
        y == RetrievedWith(0)[j]
    IN  (i < j /\ x.signals.cos # None /\ y.signals.cos # None)
          => \/ x.signals.cos.num > y.signals.cos.num
             \/ x.signals.cos.num = y.signals.cos.num
                  /\ ChunkRank(x.chunk_id) < ChunkRank(y.chunk_id)

----------------------------------------------------------------------------
\* a build of a resolvable, frozen target meets orphan rows: fts_chunks rows
\* of the target's tree and no FTS artifact of that tree
Orphaned(d, ref) ==
  LET commitHash == resolveTarget(d, ref)
      treeHash == getTreeHashForCommit(d, commitHash)
  IN  /\ commitHash # None
      /\ treeHash # None
      /\ \E fc \in d.fts_chunks : fc.tree_hash = treeHash
      /\ ~\E a \in d.index_artifacts :
            a.tree_hash = treeHash /\ a.kind = FTS_KIND /\ a.model_id = None

BuildTargets == {HEAD, MAIN, DEV} \cup DOMAIN db.commits

\* C28: build_fts_tree returns ERR_DIRTY_STATE exactly when force_rebuild is
\* false, the target's tree has no FTS artifact and fts_chunks holds a row of
\* that tree, and then it writes nothing; a build with force_rebuild = true
\* that starts in such a state ends with status success, the artifact of the
\* tree registered and the rows of the tree being those hydrated from the
\* frozen chunks.
C28_DirtyStatePreflight ==
  [][/\ \A ref \in BuildTargets, force_rebuild \in BOOLEAN :
          BuildFtsTreeCall(ref, force_rebuild)
            => LET refused == /\ "errors" \in DOMAIN last'
                              /\ last'.errors = <<"ERR_DIRTY_STATE">>
               IN  /\ refused <=> (~force_rebuild /\ Orphaned(db, ref))
                   /\ refused => (db' = db /\ pc' = "idle" /\ last'.result = None)
     /\ (BuildFtsTreeReturn /\ call.force_rebuild
           /\ Orphaned([db EXCEPT !.fts_chunks = call.snapshot.fts_chunks,
                                  !.index_artifacts = call.snapshot.index_artifacts],
                       call.ref))
          => /\ last'.errors = <<>>
             /\ last'.result.status = "success"
             /\ ExistingArtifact(db', call.treeHash) # None
             /\ \A tc \in db'.tree_chunks : tc.tree_hash = call.treeHash
                   => \E fc \in db'.fts_chunks :
                        /\ SameTreeChunk(fc, tc)
                        /\ Sha256(fc.text) = tc.content_hash
             /\ \A fc \in db'.fts_chunks : fc.tree_hash = call.treeHash
                   => \E tc \in db'.tree_chunks : SameTreeChunk(tc, fc)
    ]_vars

\* a refused build and a forced one have both met orphan rows
C28_Witness ==
  /\ BuildReturned
  /\ Orphaned(db, HEAD)
  /\ last.errors = <<"ERR_DIRTY_STATE">>

C28_WitnessForced ==
  /\ pc = "end"
  /\ call.force_rebuild
  /\ call.error = ""
  /\ Orphaned([db EXCEPT !.fts_chunks = call.snapshot.fts_chunks,
                         !.index_artifacts = call.snapshot.index_artifacts], call.ref)

----------------------------------------------------------------------------
\* the parents of a stored commit, none for a hash that is not stored
ParentsOf(d, h) ==
  IF h \in DOMAIN d.commits THEN Range(d.commits[h].parents_json.json.array) ELSE {}

\* S holds the roots and, with a commit, every parent of it
ClosedFrom(d, roots, S) ==
  /\ roots \subseteq S
  /\ \A h \in S : ParentsOf(d, h) \subseteq S

\* C29: the plan of gc_artifacts has as roots the commits of the keep_refs
\* names that are refs (of all refs when keep_refs is empty), as reachable
\* commits the least set that holds the roots and every parent, first or
\* not, of each of its stored commits, and as reachable trees the tree_hash
\* of each stored reachable commit; the plan is computed on every graph,
\* cyclic ones included.
C29_ReachableSet ==
  [][\A k \in GraphKeepRefs :
       GcArtifacts("dry_run", k, <<>>) =>
         LET plan == last'.result.plan
             roots == IF k = <<>> THEN {db.refs[r] : r \in DOMAIN db.refs}
                      ELSE {db.refs[r] : r \in Range(k) \cap DOMAIN db.refs}
             universe == roots \cup DOMAIN db.commits
                           \cup UNION {ParentsOf(db, h) : h \in DOMAIN db.commits}
         IN  /\ {r.commit_hash : r \in plan.reachable.refs} = roots
             /\ ClosedFrom(db, roots, plan.reachable.commits)
             /\ \A S \in SUBSET universe :
                  ClosedFrom(db, roots, S) => plan.reachable.commits \subseteq S
             /\ plan.reachable.trees =
                  {db.commits[h].tree_hash :
                     h \in plan.reachable.commits \cap DOMAIN db.commits}]_vars

\* a plan from a kept HEAD, of a graph with a cycle, that reaches a commit
\* through a second parent only and leaves a stored commit out
C29_Witness ==
  /\ last.tool_name = "gc_artifacts"
  /\ {r.ref_name : r \in last.result.plan.reachable.refs} = {HEAD}
  /\ MAIN \in DOMAIN db.refs
  /\ \E c \in DOMAIN db.commits : c \in ParentsOf(db, c)
  /\ DOMAIN db.commits \ last.result.plan.reachable.commits # {}
  /\ \E c \in last.result.plan.reachable.commits \cap DOMAIN db.commits :
        LET ps == db.commits[c].parents_json.json.array
        IN  /\ Len(ps) = 2
            /\ ps[2] \in last.result.plan.reachable.commits
            /\ ps[2] \notin {r.commit_hash : r \in last.result.plan.reachable.refs}
            /\ \A x \in last.result.plan.reachable.commits \cap DOMAIN db.commits :
                  LET qs == db.commits[x].parents_json.json.array
                  IN  Len(qs) > 0 => qs[1] # ps[2]

----------------------------------------------------------------------------
\* the call came back with this one error, a null result, and the store as
\* it was
Refused(code) ==
  /\ last'.errors = <<code>>
  /\ last'.result = None
  /\ db' = db

\* C30: create_task takes next_run_at from schedule.run_at when it is given,
\* with or without interval_seconds; else from reference_time plus
\* interval_seconds; with an interval and no reference_time it returns
\* ERR_DETERMINISM, with neither run_at nor interval ERR_INVALID_SCHEDULE;
\* the two errors come whatever the mode and the idempotency key, before
\* ERR_IDEMPOTENCY_REQUIRED, and leave the store as it was.
C30_NextRunAtResolution ==
  [][\A task \in Tasks, mode \in {"dry_run", "commit"},
        reference_time \in ReferenceTimes, idempotency_key \in Keys :
       CreateTask(task, mode, reference_time, idempotency_key) =>
         LET resolved == /\ last'.errors = <<>>
                         /\ \/ "would_create" \in DOMAIN last'.result
                            \/ last'.result.status = "created"
         IN  IF task.schedule.run_at # None
             THEN /\ last'.errors \in {<<>>, <<"ERR_IDEMPOTENCY_REQUIRED">>}
                  /\ resolved => last'.result.next_run_at = task.schedule.run_at
             ELSE IF task.schedule.interval_seconds # NULL /\ reference_time # None
             THEN /\ last'.errors \in {<<>>, <<"ERR_IDEMPOTENCY_REQUIRED">>}
                  /\ resolved =>
                       last'.result.next_run_at.seconds
                         = reference_time.seconds + task.schedule.interval_seconds
             ELSE IF task.schedule.interval_seconds # NULL
             THEN Refused("ERR_DETERMINISM")
             ELSE Refused("ERR_INVALID_SCHEDULE")]_vars

\* tasks are stored with a next_run_at taken from run_at and with one
\* computed from the reference time, and a submission with an interval and
\* no reference time has just been refused
C30_Witness ==
  /\ last.tool_name = "create_task"
  /\ last.errors = <<"ERR_DETERMINISM">>
  /\ \E a, b \in DOMAIN db.tasks :
        /\ db.tasks[a].next_run_at = Datetime(MaxTime, FALSE)
        /\ db.tasks[b].next_run_at = toISOString(MaxTime)

----------------------------------------------------------------------------
\* C31: a tasks row appears only by a create_task in commit mode under a
\* non-empty idempotency key whose id had no row, and it appears with
\* status pending; commit mode without a key returns
\* ERR_IDEMPOTENCY_REQUIRED (when the schedule resolves) and dry_run returns
\* would_create, both with the tasks as they were; no step of any tool
\* removes or changes a tasks row.
C31_TasksOnlyGrow ==
  [][/\ \A id \in DOMAIN db.tasks :
          id \in DOMAIN db'.tasks /\ db'.tasks[id] = db.tasks[id]
     /\ \A id \in DOMAIN db'.tasks \ DOMAIN db.tasks :
          /\ last'.tool_name = "create_task"
          /\ last'.errors = <<>>
          /\ last'.result.status = "created"
          /\ last'.result.task_id = id
          /\ db'.tasks[id].status = "pending"
          /\ db'.tasks[id].idempotency_key # ""
          /\ id = uuidv5(db'.tasks[id].idempotency_key, TASK_NAMESPACE)
          /\ DOMAIN db'.tasks = DOMAIN db.tasks \cup {id}
     /\ \A task \in {t \in Tasks : t.action = <<"R">>}, reference_time \in ReferenceTimes :
          /\ CreateTask(task, "commit", reference_time, "")
               => /\ db' = db
                  /\ last'.result = None
                  /\ (\/ task.schedule.run_at # None
                      \/ task.schedule.interval_seconds # NULL /\ reference_time # None)
                       => last'.errors = <<"ERR_IDEMPOTENCY_REQUIRED">>
          /\ \A idempotency_key \in Keys :
               CreateTask(task, "dry_run", reference_time, idempotency_key)
                 => /\ db' = db
                    /\ last'.errors = <<>> => last'.result.would_create
    ]_vars

\* a task was created under a key beside another one, after a dry run and a
\* commit without a key had left the tasks alone, and while the store holds
\* a commit and embeddings
C31_Witness ==
  /\ last.tool_name = "create_task"
  /\ last.errors = <<>>
  /\ "status" \in DOMAIN last.result
  /\ last.result.status = "created"
  /\ Cardinality(DOMAIN db.tasks) = 2
  /\ \A id \in DOMAIN db.tasks : db.tasks[id].status = "pending"
  /\ db.commits # <<>>
  /\ db.chunk_embeddings # {}

----------------------------------------------------------------------------
\* C32: build_embeddings on a target that resolves to a commit with a tree,
\* while the working tables hash to another tree, returns
\* ERR_WORKING_TREE_DIRTY with a null result, sends nothing to the provider
\* (no build is left waiting for an answer) and leaves every table,
\* chunk_embeddings, index_artifacts and artifact_refs included, as it was.
C32_DirtyTreeRefused ==
  [][\A ref \in {HEAD} \cup DOMAIN db.commits, batch_size \in {1, DefaultBatch} :
       (/\ BuildEmbeddingsCall(ref, REMOTE_PROVIDER, NULL, batch_size)
        /\ resolveTarget(db, ref) \in DOMAIN db.commits
        /\ createTreeFromCurrentState(db).treeHash
             # db.commits[resolveTarget(db, ref)].tree_hash)
         => /\ last'.tool_name = "build_embeddings"
            /\ last'.errors = <<"ERR_WORKING_TREE_DIRTY">>
            /\ last'.result = None
            /\ Suspended' = None
            /\ db' = db]_vars

\* a build of HEAD was refused while the working tables differ from the tree
\* of HEAD, beside embeddings of an earlier build
C32_Witness ==
  /\ last.tool_name = "build_embeddings"
  /\ last.errors = <<"ERR_WORKING_TREE_DIRTY">>
  /\ Suspended = None
  /\ getRef(db, HEAD) \in DOMAIN db.commits
  /\ createTreeFromCurrentState(db).treeHash # db.commits[getRef(db, HEAD)].tree_hash
  /\ db.chunk_embeddings # {}

----------------------------------------------------------------------------
\* the chunk_embeddings rows of a tree under a provider
EmbeddingRows(d, treeHash, provider_id) ==
  {r \in d.chunk_embeddings : r.tree_hash = treeHash /\ r.model_id = provider_id}

\* C40: a build_embeddings that waited for its provider, whatever
\* commit_index, checkout_index and gc_artifacts did meanwhile, writes
\* chunk_embeddings rows and an artifact of the tree of the commit resolved
\* at entry only: the rows of that tree cover exactly its frozen chunk ids,
\* each vector is computed from the text of that chunk in the tree, and the
\* artifact counts those chunks.
C40_BuildKeyedToEntryTree ==
  [][(/\ Suspended # None
      /\ Suspended' = None
      /\ last'.tool_name = "build_embeddings"
      /\ last'.errors = <<>>)
       => LET e == Suspended
              T == db.commits[e.resolved].tree_hash
              frozen == {tc \in db.tree_chunks : tc.tree_hash = T}
          IN  /\ \A r \in db'.chunk_embeddings \ db.chunk_embeddings :
                    r.tree_hash = T /\ r.model_id = e.provider_id
              /\ {r.chunk_id : r \in EmbeddingRows(db', T, e.provider_id)}
                   = {tc.chunk_id : tc \in frozen}
              /\ \A r \in EmbeddingRows(db', T, e.provider_id) :
                    \E tc \in frozen :
                      /\ tc.chunk_id = r.chunk_id
                      /\ Sha256(r.embedding.vector_of) = tc.content_hash
              /\ \A a \in db'.index_artifacts \ db.index_artifacts :
                    /\ a.tree_hash = T
                    /\ a.kind = EMB_KIND
                    /\ a.artifact_id = last'.result.artifact_id
              /\ last'.result.tree_hash = T
              /\ last'.result.chunk_count = Cardinality(frozen)
              /\ \E a \in db'.index_artifacts :
                    a.artifact_id = last'.result.artifact_id /\ a.tree_hash = T]_vars

\* a build of HEAD has written its rows after HEAD had moved to a commit of
\* another tree while the build waited
C40_Witness ==
  /\ last.tool_name = "build_embeddings"
  /\ last.errors = <<>>
  /\ last.result.ref = HEAD
  /\ db.commits[getRef(db, HEAD)].tree_hash # last.result.tree_hash
  /\ createTreeFromCurrentState(db).treeHash # last.result.tree_hash
  /\ EmbeddingRows(db, last.result.tree_hash, REMOTE_PROVIDER) # {}

----------------------------------------------------------------------------
\* C33: a checkout_index that returns from a dry run, or with an error,
\* leaves the working documents, the working chunks and every ref, HEAD
\* included, as they were.
C33_FailedCheckoutKeepsState ==
  [][(/\ last'.tool_name = "checkout_index"
      /\ \/ last'.errors # <<>>
         \/ last'.result.mode = "dry_run")
       => /\ db'.documents = db.documents
          /\ db'.chunks = db.chunks
          /\ db'.refs = db.refs]_vars

\* a checkout of a commit without documents was refused while the working
\* tables hold chunks and HEAD points to a commit
C33_Witness ==
  /\ last.tool_name = "checkout_index"
  /\ last.errors = <<"ERR_TREE_PAYLOAD_MISSING">>
  /\ DOMAIN db.chunks # {}
  /\ HEAD \in DOMAIN db.refs

\* a dry run of a stored commit, and a checkout of a hash that is not stored
C33_WitnessDryRun ==
  /\ last.tool_name = "checkout_index"
  /\ last.errors = <<>>
  /\ last.result.mode = "dry_run"
  /\ DOMAIN db.chunks # {}

C33_WitnessUnstored ==
  /\ last.tool_name = "checkout_index"
  /\ last.errors = <<"ERR_TREE_HASH_MISSING">>
  /\ DOMAIN db.refs # {}

----------------------------------------------------------------------------
\* C34: every ref points to a commit stored in commits whose tree is stored
\* in trees: no sequence of commits, checkouts (with or without a branch to
\* move) and startup commits leaves a dangling ref.
C34_NoDanglingRef ==
  \A r \in DOMAIN db.refs :
     /\ db.refs[r] \in DOMAIN db.commits
     /\ db.commits[db.refs[r]].tree_hash \in DOMAIN db.trees

\* three refs on two commits, one of them written at startup, with dev
\* apart from main
C34_Witness ==
  /\ DOMAIN db.refs = {HEAD, MAIN, DEV}
  /\ db.refs[DEV] # db.refs[MAIN]
  /\ \E c \in DOMAIN db.commits :
       db.commits[c].message = "System Bootstrap: Tool Registry Sync"

----------------------------------------------------------------------------
\* C35: a successful commit_index on a branch creates a commit whose parents
\* are the previous tip of that branch alone, or none when the branch had no
\* tip, wherever HEAD pointed, and sets the branch and HEAD to the new
\* commit in the same step.
C35_ParentsFromBranchTip ==
  [][\A b \in {MAIN, DEV}, e \in {None} \cup DOMAIN db.commits :
       (CommitIndex(b, e, "Snapshot") /\ last'.errors = <<>>) =>
         LET parents == IF b \in DOMAIN db.refs THEN <<db.refs[b]>> ELSE <<>>
             h == last'.result.commit_hash
         IN  /\ last'.result.parents = parents
             /\ h \in DOMAIN db'.commits
             /\ JsonParse(db'.commits[h].parents_json).array = parents
             /\ db'.refs[b] = h
             /\ db'.refs[HEAD] = h]_vars

\* a commit on dev without parents, made while main (and with it HEAD) was
\* at another commit
C35_Witness ==
  /\ last.tool_name = "commit_index" /\ last.errors = <<>>
  /\ last.result.branch = DEV /\ last.result.parents = <<>>
  /\ MAIN \in DOMAIN db.refs /\ db.refs[MAIN] # last.result.commit_hash
  /\ db.refs[DEV] = last.result.commit_hash
  /\ db.refs[HEAD] = last.result.commit_hash

----------------------------------------------------------------------------
\* C36: commit_index with an expected_parent (a commit hash) that is not the
\* tip of the branch, a branch without tip included, returns
\* ERR_REF_MISMATCH with a null result and writes no tree, blob, tree_docs,
\* tree_chunks, commit or ref.
C36_RefMismatchWritesNothing ==
  [][\A b \in {MAIN, DEV}, e \in {UnstoredHash} \cup DOMAIN db.commits :
       (CommitIndex(b, e, "Snapshot") /\ getRef(db, b) # e) =>
         /\ last'.errors = <<"ERR_REF_MISMATCH">>
         /\ last'.result = None
         /\ db'.trees = db.trees /\ db'.blobs = db.blobs
         /\ db'.tree_docs = db.tree_docs /\ db'.tree_chunks = db.tree_chunks
         /\ db'.commits = db.commits /\ db'.refs = db.refs]_vars

\* the refusal on a branch that has a tip
C36_Witness ==
  /\ last = ErrorEnvelope("commit_index", "ERR_REF_MISMATCH")
  /\ DOMAIN db.refs = {HEAD, MAIN, DEV}

\* the refusal while no branch has a tip
C36_WitnessNoTip ==
  /\ last = ErrorEnvelope("commit_index", "ERR_REF_MISMATCH")
  /\ db.refs = <<>>

----------------------------------------------------------------------------
\* C37: the tree_docs and tree_chunks rows of a tree are fixed by the first
\* commit_index that stores it: a later commit_index whose working state
\* yields the same tree_hash adds no row and changes no row for that tree.
C37_TreeRowsFixed ==
  [][\A m \in GitMessages :
       LET t == createTreeFromCurrentState(db).treeHash
       IN  (CommitIndex(MAIN, None, m) /\ t \in DOMAIN db.trees) =>
             /\ {x \in db'.tree_docs : x.tree_hash = t}
                  = {x \in db.tree_docs : x.tree_hash = t}
             /\ {x \in db'.tree_chunks : x.tree_hash = t}
                  = {x \in db.tree_chunks : x.tree_hash = t}]_vars

\* the half that holds: no row of a stored tree is changed or removed, and
\* its tree_chunks rows are never added to
C37_TreeRowsKept ==
  [][\A m \in GitMessages :
       LET t == createTreeFromCurrentState(db).treeHash
       IN  (CommitIndex(MAIN, None, m) /\ t \in DOMAIN db.trees) =>
             /\ {x \in db.tree_docs : x.tree_hash = t}
                  \subseteq {x \in db'.tree_docs : x.tree_hash = t}
             /\ {x \in db'.tree_chunks : x.tree_hash = t}
                  = {x \in db.tree_chunks : x.tree_hash = t}]_vars

----------------------------------------------------------------------------
\* C38: with keep_refs that name refs, gc_artifacts takes as roots the named
\* refs that resolve and nothing else: when none resolves nothing is
\* reachable, and the run in commit mode deletes every index_artifacts row
\* of the selected kinds and every chunk_embeddings row.
C38_NamedRootsOnly ==
  [][\A k \in GcNamedRefs, kinds \in GcKinds :
       GcArtifacts("commit", k, kinds) =>
         LET named == Range(k) \cap DOMAIN db.refs
             plan == last'.result.plan
         IN  /\ plan.reachable.refs =
                  {[ref_name |-> r, commit_hash |-> db.refs[r]] : r \in named}
             /\ plan.reachable.commits = Ancestors(db, {db.refs[r] : r \in named})
             /\ named = {} =>
                  /\ plan.reachable.trees = {}
                  /\ db'.index_artifacts =
                       {a \in db.index_artifacts :
                          Len(kinds) > 0 /\ a.kind \notin Range(kinds)}
                  /\ db'.chunk_embeddings = {}]_vars

\* a run whose names resolved to nothing while refs existed, and that
\* emptied both tables
C38_Witness ==
  /\ GcCommitted
  /\ last.result.plan.reachable.refs = {}
  /\ db.refs # <<>>
  /\ last.result.plan.delete.index_artifacts # {}
  /\ last.result.plan.delete.chunk_embeddings_tree_hashes # {}
  /\ db.index_artifacts = {}
  /\ db.chunk_embeddings = {}

\* a run rooted at HEAD alone that deleted the artifacts of the tip of main
C38_WitnessHeadOnly ==
  /\ GcCommitted
  /\ \E r \in last.result.plan.reachable.refs : r.ref_name = HEAD
  /\ db.refs[MAIN] \notin last.result.plan.reachable.commits
  /\ \E a \in last.result.plan.delete.index_artifacts :
       a.tree_hash = db.commits[db.refs[MAIN]].tree_hash

----------------------------------------------------------------------------
\* C39: gc_artifacts writes neither fts_chunks nor fts_chunks_fts.  After a
\* run in commit mode has deleted the FTS artifact of a tree, the rows of
\* that tree are still there, so the tree is left with rows and no artifact;
\* a build of such a tree without force_rebuild returns ERR_DIRTY_STATE, and
\* the artifact of a tree found in that state is registered by a build with
\* force_rebuild only.
C39_GcKeepsFtsRows ==
  [][/\ \A k \in {<<>>, <<HEAD>>, <<DEV>>} :
          GcArtifacts("commit", k, <<>>) =>
            /\ db'.fts_chunks = db.fts_chunks
            /\ db'.fts_chunks_fts = db.fts_chunks_fts
            /\ \A a \in last'.result.plan.delete.index_artifacts,
                  ref \in BuildTargets :
                    (/\ a.kind = FTS_KIND
                     /\ getTreeHashForCommit(db', resolveTarget(db', ref)) = a.tree_hash
                     /\ \E fc \in db.fts_chunks : fc.tree_hash = a.tree_hash)
                      => Orphaned(db', ref)
     /\ \A ref \in BuildTargets :
          (BuildFtsTreeCall(ref, FALSE) /\ Orphaned(db, ref))
            => last' = ErrorEnvelope("build_fts_tree", "ERR_DIRTY_STATE")
     /\ (/\ BuildFtsTreeRegister
         /\ ExistingArtifact(db', call.treeHash) # None
         /\ Orphaned([db EXCEPT !.fts_chunks = call.snapshot.fts_chunks,
                                !.index_artifacts = call.snapshot.index_artifacts],
                     call.ref))
          => call.force_rebuild
    ]_vars

\* a run that deleted the FTS artifact of a tree whose rows are still there
C39_Witness ==
  /\ GcCommitted
  /\ \E a \in last.result.plan.delete.index_artifacts :
       /\ a.kind = FTS_KIND
       /\ \E fc \in db.fts_chunks : fc.tree_hash = a.tree_hash
       /\ ExistingArtifact(db, a.tree_hash) = None

\* a build of main refused while rows are left and no FTS artifact is
C39_WitnessRefused ==
  /\ last = ErrorEnvelope("build_fts_tree", "ERR_DIRTY_STATE")
  /\ Orphaned(db, MAIN)
  /\ ~\E a \in db.index_artifacts : a.kind = FTS_KIND

\* the artifact registered again by a forced build that met such rows
C39_WitnessForced ==
  /\ pc \in {"finally", "end"}
  /\ call.force_rebuild
  /\ ExistingArtifact(db, call.treeHash) # None
  /\ Orphaned([db EXCEPT !.fts_chunks = call.snapshot.fts_chunks,
                         !.index_artifacts = call.snapshot.index_artifacts], call.ref)

====
